---------------------------- MODULE Spec2Model ----------------------------
(***************************************************************************)
(* A model of the ThunderMirror receiver (mac-to-windows-display):          *)
(*   - the wire codec of shared/src/protocol.rs (FrameHeader, FrameType);   *)
(*   - the QUIC server of win/src/main.rs: run_quic_server,                 *)
(*     handle_connection with its three acceptor tasks,                     *)
(*     handle_frame_byte_stream, handle_single_frame_datagramlike;          *)
(*   - the bounded frame channel between the acceptors and the presenter    *)
(*     loop of main.                                                        *)
(*                                                                         *)
(* Bytes are the integers 0..255 and a buffer is a sequence of bytes.       *)
(* Unsigned fields are naturals; TLC's integers are 32-bit, so the values   *)
(* drawn for the 64-bit fields stay below 2^31 (no arithmetic of the code   *)
(* on these fields can overflow: they are only copied).                     *)
(***************************************************************************)
EXTENDS Integers, Sequences, FiniteSets, TLC

VARIABLES
    \* ---- codec harness (protocol.rs) ----
    chdr,       \* the FrameHeader handed to encode
    cpre,       \* the bytes that were in the BytesMut before encode
    cbuf,       \* the BytesMut / Bytes the codec works on
    cdec,       \* the result of FrameHeader::decode
    cpc,        \* "init" | "encoded" | "damaged" | "decoded" | "decoded_damaged"
    ctag,       \* the u8 handed to FrameType::try_from
    ctagRes,    \* its result
    \* ---- receiver (win/src/main.rs) ----
    conn,       \* conn[c]: "none" | "handshake" | "open" | "closed" | "failed"
    biPc,       \* bi_task of connection c: "idle" | "accept" | "hdr" | "payload" | "send" | "done"
    biBuf,      \* buf of handle_frame_byte_stream
    biNeed,     \* total_needed of handle_frame_byte_stream
    biFrame,    \* the FrameData the handler is sending
    biRes,      \* how the last handle_frame_byte_stream returned: "none" | "ok" | "err"
    wire,       \* bytes of the current bidirectional stream not yet read
    uniPc,      \* uni_task: "idle" | "accept" | "send" | "done"
    uniFrame,   \* the FrameData the uni task is sending
    dgPc,       \* dgram_task: "idle" | "accept" | "send" | "done" | "panicked"
    dgFrame,    \* the FrameData the datagram task is sending
    joined,     \* handle_connection of c has returned (tokio::join! completed)
    chan,       \* the mpsc channel's queue
    rxOpen,     \* the presenter still holds the receiver rx
    \* ---- environment and observation ----
    sentBi,     \* the frames the sender wrote on the current bidirectional stream
    cut,        \* the current bidirectional stream was ended or reset early
    emitBi,     \* the FrameData the current stream's handler has enqueued
    seen,       \* the FrameData the presenter has taken from the channel
    budget,     \* messages (streams, datagrams) the senders may still start
    \* ---- presenter (main's window loop) ----
    width,          \* current framebuffer width
    height,         \* current framebuffer height
    buffer,         \* the Vec<u32> framebuffer
    frame_count,    \* frames drained since the last stats line
    total_bytes,    \* payload bytes drained since the last stats line
    h264_frames,    \* pictures decoded since the last stats line
    raw_frames,     \* raw frames copied since the last stats line
    decLog,         \* what h264_decoder answered, call by call
    shown,          \* arguments of the last update_with_buffer call
    ppc,            \* presenter position: "check" | "drain" | "present" | "stats" | "exited"
    elapsed,        \* last_stats.elapsed(), in ticks, counted up to STATS_PERIOD
    title,          \* the window's title
    reported,       \* the sum of the frame counts of the stats lines so far
    stop,           \* the window was closed, or Escape is held down
    \* ---- library functions (colour conversion, stats.rs, test_pattern.rs) ----
    yuv,            \* the <<y, u, v>> handed to yuv_to_rgb_bt709_limited
    rgbPixel,       \* its result and the pixel packed from it
    stats,          \* the atomic counters of a Stats collector
    statsCalls,     \* the calls made on it since the last reset
    statsSnap,      \* the last StatsSnapshot it returned
    barsArgs,       \* the <<width, height>> handed to generate_color_bars
    barsOut,        \* its result
    picGeom,        \* a decoded picture's dimensions and strides, and the framebuffer's length
    picVisit,       \* the indices the conversion loop used for each (row, col)
    \* ---- threads sharing one Stats collector ----
    thr,            \* thr[t]: where thread t is in its call, and the call's locals
    mutex,          \* the holder of last_snapshot_time's lock, or NoThread
    hist,           \* what has happened to the collector so far
    \* ---- the UI shell (win/src/ui/win32_shell.rs) ----
    child,           \* AppState.child: the id of the Child held, or NoChild
    procs,           \* procs[i]: receiver process i is "unborn" | "running" | "exited" | "reaped"
    readers,         \* readers[i]: the stdout reader thread of child i is "none" | "reading" | "done"
    process_status,  \* UiModel.process_status
    fullscreen,      \* UiModel.fullscreen
    uiPc,            \* where the UI thread is inside handle_button_click
    destroyed,       \* WM_DESTROY has been handled
    shellHist        \* what the last Start click did, and the child of the last restart

codecVars == <<chdr, cpre, cbuf, cdec, cpc, ctag, ctagRes>>
biVars    == <<biPc, biBuf, biNeed, biFrame, biRes, wire, sentBi, cut, emitBi>>
uniVars   == <<uniPc, uniFrame>>
dgVars    == <<dgPc, dgFrame>>
connVars  == <<conn, joined>>
chanVars  == <<chan, rxOpen, seen>>
netVars   == <<connVars, biVars, uniVars, dgVars, chanVars, budget>>
fbVars    == <<width, height, buffer>>
statVars  == <<frame_count, total_bytes, h264_frames, raw_frames>>
teleVars  == <<elapsed, title, reported>>
presVars  == <<fbVars, statVars, decLog, shown, ppc, teleVars, stop>>
concVars  == <<thr, mutex, hist>>
shellVars == <<child, procs, readers, process_status, fullscreen, uiPc, destroyed, shellHist>>
libVars   == <<yuv, rgbPixel, stats, statsCalls, statsSnap, barsArgs, barsOut, picGeom, picVisit,
               concVars, shellVars>>
vars      == <<codecVars, netVars, presVars, libVars>>

-----------------------------------------------------------------------------
(* Bytes and big-endian integers (bytes::Buf / bytes::BufMut)               *)

Byte == 0..255

Min(a, b) == IF a < b THEN a ELSE b

RECURSIVE PutBE(_, _)
\* BufMut::put_u8 / put_u16 / put_u32 / put_u64: n as k big-endian bytes.
PutBE(n, k) == IF k = 0 THEN <<>> ELSE Append(PutBE(n \div 256, k - 1), n % 256)

RECURSIVE GetBEPrefix(_, _)
\* The big-endian value of the first n bytes of s.
GetBEPrefix(s, n) == IF n = 0 THEN 0 ELSE GetBEPrefix(s, n - 1) * 256 + s[n]

\* Buf::get_u8 / get_u16 / get_u32 / get_u64 of exactly these bytes.
GetBE(s) == GetBEPrefix(s, Len(s))

Take(s, n) == SubSeq(s, 1, Min(n, Len(s)))
Drop(s, n) == SubSeq(s, n + 1, Len(s))

-----------------------------------------------------------------------------
(* shared/src/protocol.rs                                                   *)

PROTOCOL_VERSION == 1
FrameHeader_SIZE == 26

SharedFrameTypes == {"RawFrame", "H264Frame", "Control", "Stats"}

\* `self.frame_type as u8` of the #[repr(u8)] enum.
FrameTypeAsU8(ft) ==
    CASE ft = "RawFrame"  -> 0
      [] ft = "H264Frame" -> 1
      [] ft = "Control"   -> 2
      [] ft = "Stats"     -> 3

\* A slip in try_from: every tag from 3 up is taken for Stats.
SharedTryFrom_Lenient(value) ==
    CASE value = 0 -> [ok |-> TRUE,  ft |-> "RawFrame",  err |-> "none"]
      [] value = 1 -> [ok |-> TRUE,  ft |-> "H264Frame", err |-> "none"]
      [] value = 2 -> [ok |-> TRUE,  ft |-> "Control",   err |-> "none"]
      [] OTHER     -> [ok |-> TRUE,  ft |-> "Stats",     err |-> "none"]

\* impl TryFrom<u8> for FrameType (protocol.rs).
SharedTryFrom(value) ==
    CASE value = 0 -> [ok |-> TRUE,  ft |-> "RawFrame",  err |-> "none"]
      [] value = 1 -> [ok |-> TRUE,  ft |-> "H264Frame", err |-> "none"]
      [] value = 2 -> [ok |-> TRUE,  ft |-> "Control",   err |-> "none"]
      [] value = 3 -> [ok |-> TRUE,  ft |-> "Stats",     err |-> "none"]
      [] OTHER     -> [ok |-> FALSE, ft |-> "none",      err |-> "Protocol"]

\* A slip in encode: height written before width.
EncodeHeader_SwappedDims(h) ==
    PutBE(h.version, 1) \o PutBE(FrameTypeAsU8(h.frame_type), 1)
      \o PutBE(h.sequence, 8) \o PutBE(h.timestamp_us, 8)
      \o PutBE(h.height, 2) \o PutBE(h.width, 2) \o PutBE(h.payload_size, 4)

\* FrameHeader::encode: the 26 bytes appended to buf.
EncodeHeader(h) ==
    PutBE(h.version, 1) \o PutBE(FrameTypeAsU8(h.frame_type), 1)
      \o PutBE(h.sequence, 8) \o PutBE(h.timestamp_us, 8)
      \o PutBE(h.width, 2) \o PutBE(h.height, 2) \o PutBE(h.payload_size, 4)

NoHeader == [version |-> 0, frame_type |-> "none", sequence |-> 0,
             timestamp_us |-> 0, width |-> 0, height |-> 0, payload_size |-> 0]

DecodeErr(rest) == [ok |-> FALSE, err |-> "Protocol", header |-> NoHeader, rest |-> rest]

\* FrameHeader::decode: the header or a Protocol error, and what is left of buf
\* (the bytes read before an error stay consumed).
DecodeHeader(buf) ==
    IF Len(buf) < FrameHeader_SIZE THEN DecodeErr(buf)
    ELSE LET version == GetBE(SubSeq(buf, 1, 1)) IN
         IF version # PROTOCOL_VERSION THEN DecodeErr(Drop(buf, 1))
         ELSE LET ft == SharedTryFrom(GetBE(SubSeq(buf, 2, 2))) IN
              IF ~ft.ok THEN DecodeErr(Drop(buf, 2))
              ELSE [ok |-> TRUE, err |-> "none",
                    header |-> [version      |-> version,
                                frame_type   |-> ft.ft,
                                sequence     |-> GetBE(SubSeq(buf, 3, 10)),
                                timestamp_us |-> GetBE(SubSeq(buf, 11, 18)),
                                width        |-> GetBE(SubSeq(buf, 19, 20)),
                                height       |-> GetBE(SubSeq(buf, 21, 22)),
                                payload_size |-> GetBE(SubSeq(buf, 23, 26))],
                    rest |-> Drop(buf, FrameHeader_SIZE)]

-----------------------------------------------------------------------------
(* win/src/main.rs: constants, FrameType, FrameData, the two parsers        *)

FRAME_HEADER_SIZE == 26

\* The source accepts payloads up to 16 MiB (16 * 1024 * 1024).  The code only
\* compares payload_size with this ceiling, so the model scales it down to a
\* size whose payloads can be enumerated byte by byte.
MAX_FRAME_PAYLOAD_SIZE == 2

\* mpsc::channel::<FrameData>(60), scaled down likewise.
CHANNEL_CAPACITY == 2

\* max_length of the two read_chunk calls of handle_frame_byte_stream.
HDR_CHUNK_MAX     == 64 * 1024
PAYLOAD_CHUNK_MAX == 256 * 1024

\* impl TryFrom<u8> for FrameType (main.rs).
MainTryFrom(value) ==
    CASE value = 0 -> [ok |-> TRUE,  ft |-> "Raw"]
      [] value = 1 -> [ok |-> TRUE,  ft |-> "H264"]
      [] value = 2 -> [ok |-> TRUE,  ft |-> "Control"]
      [] value = 3 -> [ok |-> TRUE,  ft |-> "Stats"]
      [] OTHER     -> [ok |-> FALSE, ft |-> "none"]

\* The get_u8 / get_u64 / get_u64 / get_u16 / get_u16 / get_u32 sequence both
\* parsers run on the first 26 bytes of b (b has at least 26 bytes).
HeaderFields(b) ==
    [version        |-> GetBE(SubSeq(b, 1, 1)),
     frame_type_raw |-> GetBE(SubSeq(b, 2, 2)),
     sequence       |-> GetBE(SubSeq(b, 3, 10)),
     timestamp_us   |-> GetBE(SubSeq(b, 11, 18)),
     width          |-> GetBE(SubSeq(b, 19, 20)),
     height         |-> GetBE(SubSeq(b, 21, 22)),
     payload_size   |-> GetBE(SubSeq(b, 23, 26))]

NoFrame == [width |-> 0, height |-> 0, rgba_data |-> <<>>, sequence |-> 0,
            frame_type |-> "none"]

\* struct FrameData as both parsers build it.
MkFrameData(h, ft, payload) ==
    [width |-> h.width, height |-> h.height, rgba_data |-> payload,
     sequence |-> h.sequence, frame_type |-> ft]

\* A one-shot parser that takes everything after the header as the payload.
SingleFrameParse_ExactLength(data) ==
    IF Len(data) < FRAME_HEADER_SIZE
    THEN [kind |-> "panic", frame |-> NoFrame]
    ELSE LET h    == HeaderFields(data)
             rest == Drop(data, FRAME_HEADER_SIZE)
             ft   == MainTryFrom(h.frame_type_raw)
         IN  IF h.payload_size > MAX_FRAME_PAYLOAD_SIZE \/ ~ft.ok
                \/ Len(rest) # h.payload_size
             THEN [kind |-> "err", frame |-> NoFrame]
             ELSE [kind |-> "frame", frame |-> MkFrameData(h, ft.ft, rest)]

SingleFrameParse_WholeRest(data) ==
    IF Len(data) < FRAME_HEADER_SIZE
    THEN [kind |-> "panic", frame |-> NoFrame]
    ELSE LET h    == HeaderFields(data)
             rest == Drop(data, FRAME_HEADER_SIZE)
             ft   == MainTryFrom(h.frame_type_raw)
         IN  IF h.payload_size > MAX_FRAME_PAYLOAD_SIZE \/ ~ft.ok
                \/ Len(rest) < h.payload_size
             THEN [kind |-> "err", frame |-> NoFrame]
             ELSE [kind |-> "frame", frame |-> MkFrameData(h, ft.ft, rest)]

\* handle_single_frame_datagramlike up to its tx.send: "panic" (a Buf getter
\* ran out of bytes), "err" (anyhow::bail! or the `?` of try_from) or "frame".
\* The version byte is read into _version and never looked at.
SingleFrameParse(data) ==
    IF Len(data) < FRAME_HEADER_SIZE
    THEN [kind |-> "panic", frame |-> NoFrame]
    ELSE LET h    == HeaderFields(data)
             rest == Drop(data, FRAME_HEADER_SIZE)
             ft   == MainTryFrom(h.frame_type_raw)
         IN  IF h.payload_size > MAX_FRAME_PAYLOAD_SIZE
             THEN [kind |-> "err", frame |-> NoFrame]
             ELSE IF ~ft.ok
             THEN [kind |-> "err", frame |-> NoFrame]
             ELSE IF Len(rest) < h.payload_size
             THEN [kind |-> "err", frame |-> NoFrame]
             ELSE [kind |-> "frame",
                   frame |-> MkFrameData(h, ft.ft, Take(rest, h.payload_size))]

\* A slip in the ceiling check: >= where the code has >.
PeekAccepts_StrictCeiling(h) ==
    /\ h.version = 1
    /\ h.payload_size < MAX_FRAME_PAYLOAD_SIZE

\* handle_frame_byte_stream, lines 639-656: the peeked header passes the
\* version and payload-ceiling checks.
PeekAccepts(h) ==
    /\ h.version = 1
    /\ h.payload_size <= MAX_FRAME_PAYLOAD_SIZE

\* A slip in the consume step: the payload is taken from the start of the
\* frame's bytes, header included.
ConsumeFrame_PayloadFromStart(frame_bytes) ==
    LET h  == HeaderFields(frame_bytes)
        ft == MainTryFrom(h.frame_type_raw)
    IN  IF ~ft.ok THEN [kind |-> "skip", frame |-> NoFrame]
        ELSE [kind |-> "frame",
              frame |-> MkFrameData(h, ft.ft, Take(frame_bytes, h.payload_size))]

\* A slip in the consume step: an unknown frame_type is passed on as Raw.
ConsumeFrame_DefaultRaw(frame_bytes) ==
    LET h    == HeaderFields(frame_bytes)
        rest == Drop(frame_bytes, FRAME_HEADER_SIZE)
        ft   == MainTryFrom(h.frame_type_raw)
    IN  [kind |-> "frame",
         frame |-> MkFrameData(h, IF ft.ok THEN ft.ft ELSE "Raw",
                               Take(rest, h.payload_size))]

\* handle_frame_byte_stream, lines 667-700, on the total_needed bytes split off
\* buf: "skip" (the two `continue`s) or the frame to send.
ConsumeFrame(frame_bytes) ==
    LET h    == HeaderFields(frame_bytes)
        rest == Drop(frame_bytes, FRAME_HEADER_SIZE)
        ft   == MainTryFrom(h.frame_type_raw)
    IN  IF ~ft.ok THEN [kind |-> "skip", frame |-> NoFrame]
        ELSE IF Len(rest) < h.payload_size THEN [kind |-> "skip", frame |-> NoFrame]
        ELSE [kind |-> "frame",
              frame |-> MkFrameData(h, ft.ft, Take(rest, h.payload_size))]

-----------------------------------------------------------------------------
(* The codec harness: encode a header, optionally damage the bytes, decode. *)

\* Values drawn for the header fields: zero, a value whose bytes differ from
\* each other (so a byte-order or field-order slip shows), and a large one.
CodecHeaders ==
    [version      : {0, 1, 2},
     frame_type   : SharedFrameTypes,
     sequence     : {42, 16909060},
     timestamp_us : {1000000},
     width        : {0, 1920},
     height       : {1080},
     payload_size : {0, 8294400}]

DefaultHeader ==
    [version |-> 1, frame_type |-> "RawFrame", sequence |-> 42,
     timestamp_us |-> 1000000, width |-> 1920, height |-> 1080,
     payload_size |-> 8294400]

\* Bytes written over the version or the frame_type byte.
TamperBytes == {0, 1, 2, 3, 4, 255}

\* Lengths a damaged header is cut to.
TruncLens == {0, 1, 2, 25}

NoDecode == [ok |-> FALSE, err |-> "none", header |-> NoHeader, rest |-> <<>>]
NoTag    == [ok |-> FALSE, ft |-> "none", err |-> "none"]

\* The bytes encode appended to the buffer.
Appended == Drop(cbuf, Len(cpre))

CodecInit ==
    /\ chdr \in CodecHeaders
    /\ ctag \in Byte
    /\ (ctag \in TamperBytes \/ chdr = DefaultHeader)
    /\ cpre \in {<<>>, <<1, 0>>}
    /\ cbuf = cpre
    /\ cdec = NoDecode
    /\ cpc = "init"
    /\ ctagRes = NoTag

\* header.encode(&mut buf)
CodecEncode ==
    /\ cpc = "init"
    /\ cbuf' = cbuf \o EncodeHeader(chdr)
    /\ cpc' = "encoded"
    /\ UNCHANGED <<chdr, cpre, cdec, ctag, ctagRes>>
    /\ UNCHANGED <<netVars, presVars, libVars>>

\* The peer (or the network) put ctag where the version (i = 1) or the
\* frame_type (i = 2) byte was.
CodecTamper(i) ==
    /\ cpc = "encoded"
    /\ cbuf' = [cbuf EXCEPT ![Len(cpre) + i] = ctag]
    /\ cpc' = "damaged"
    /\ UNCHANGED <<chdr, cpre, cdec, ctag, ctagRes>>
    /\ UNCHANGED <<netVars, presVars, libVars>>

\* Only the first n bytes of the header arrived.
CodecTruncate(n) ==
    /\ cpc \in {"encoded", "damaged"}
    /\ n < Len(Appended)
    /\ cbuf' = SubSeq(cbuf, 1, Len(cpre) + n)
    /\ cpc' = "damaged"
    /\ UNCHANGED <<chdr, cpre, cdec, ctag, ctagRes>>
    /\ UNCHANGED <<netVars, presVars, libVars>>

\* FrameHeader::decode(&mut bytes) on the appended bytes.
CodecDecode ==
    /\ cpc \in {"encoded", "damaged"}
    /\ cdec' = DecodeHeader(Appended)
    /\ cpc' = IF cpc = "encoded" THEN "decoded" ELSE "decoded_damaged"
    /\ UNCHANGED <<chdr, cpre, cbuf, ctag, ctagRes>>
    /\ UNCHANGED <<netVars, presVars, libVars>>

\* FrameType::try_from(ctag)
CodecTryFrom ==
    /\ ctagRes = NoTag
    /\ cpc = "init"
    /\ ctagRes' = SharedTryFrom(ctag)
    /\ UNCHANGED <<chdr, cpre, cbuf, cdec, cpc, ctag>>
    /\ UNCHANGED <<netVars, presVars, libVars>>

-----------------------------------------------------------------------------
(* The senders: what arrives on streams and in datagrams                    *)

\* Connections the listener may accept.
MaxConns == 2
Conns == 1..MaxConns

\* Frames a sender writes back-to-back on one bidirectional stream.
MaxFrames == 2

\* Streams and datagrams the senders may start in the connection-level
\* specification.
MaxMsgs == 3

\* Datagrams the senders may send in the listener specification.
MaxDgrams == 3

\* n payload bytes, all different from each other and depending on base.
Pattern(n, base) == [i \in 1..n |-> (base + 16 * i) % 256]

\* A frame as the sender lays it out (protocol.rs, Frame::encode), with any
\* version and frame_type byte.
WireFrame(f) ==
    PutBE(f.version, 1) \o PutBE(f.tag, 1) \o PutBE(f.sequence, 8)
      \o PutBE(f.timestamp_us, 8) \o PutBE(f.width, 2) \o PutBE(f.height, 2)
      \o PutBE(f.payload_size, 4) \o f.payload

RECURSIVE WireStream(_)
WireStream(fs) == IF fs = <<>> THEN <<>> ELSE WireFrame(Head(fs)) \o WireStream(Tail(fs))

SFrame(v, t, sq, ts, w, h, ps, pl) ==
    [version |-> v, tag |-> t, sequence |-> sq, timestamp_us |-> ts,
     width |-> w, height |-> h, payload_size |-> ps, payload |-> pl]

\* Well-formed frames: one of each type; FRaw's payload is exactly the ceiling.
FRaw   == SFrame(1, 0, 1, 0, 2, 1, MAX_FRAME_PAYLOAD_SIZE,
                 Pattern(MAX_FRAME_PAYLOAD_SIZE, 255))
FH264  == SFrame(1, 1, 258, 1000000, 1920, 1080, 1, Pattern(1, 7))
FCtl   == SFrame(1, 2, 3, 5, 0, 0, 0, <<>>)
FStats == SFrame(1, 3, 4, 6, 0, 0, 0, <<>>)
\* Malformed frames: a wrong version, an unknown frame_type, a payload one
\* byte over the ceiling.
FBadVer  == SFrame(2, 0, 5, 7, 2, 1, 1, Pattern(1, 9))
FBadType == SFrame(1, 4, 6, 8, 2, 1, 1, Pattern(1, 11))
FOver    == SFrame(1, 0, 7, 9, 2, 1, MAX_FRAME_PAYLOAD_SIZE + 1,
                   Pattern(MAX_FRAME_PAYLOAD_SIZE + 1, 13))

WellFormedPool == {FRaw, FH264, FCtl, FStats}
FramePool == WellFormedPool \cup {FBadVer, FBadType, FOver}

\* The streams of the byte-stream specification: 1..MaxFrames pool frames.
SeqsUpTo(S, n) == UNION {[1..k -> S] : k \in 1..n}
StreamPool == SeqsUpTo(FramePool, MaxFrames)

\* The streams of the connection-level specification.
SmallStreams == {<<FCtl>>, <<FRaw>>, <<FBadVer>>, <<FBadType, FStats>>, <<FOver, FStats>>}

\* One-shot streams and datagrams of the connection-level specification: whole
\* frames, a header that announces a payload over the ceiling, and a message
\* shorter than a header.
OverHeader == SubSeq(WireFrame(FOver), 1, FRAME_HEADER_SIZE)
ShortMsg   == SubSeq(WireFrame(FStats), 1, FRAME_HEADER_SIZE - 1)
MsgPool == {WireFrame(FH264), WireFrame(FBadVer), WireFrame(FBadType),
            WireFrame(FOver), WireFrame(FRaw), OverHeader, ShortMsg}

\* Streams and messages for the payload-length specification: frames back to
\* back, a message with a byte after its payload, one whose payload is a
\* byte short.
MaxParseMsgs == 2
ParseStreams == {<<FRaw, FH264>>, <<FH264, FBadType, FCtl>>}
TrailingMsg  == WireFrame(FCtl) \o <<9>>
CutShortMsg  == SubSeq(WireFrame(FRaw), 1, Len(WireFrame(FRaw)) - 1)
ParseMsgs    == {WireFrame(FRaw), WireFrame(FH264), TrailingMsg, CutShortMsg}

\* Streams and messages a connection carries when it is closed.
MaxCloseMsgs == 2
CloseStreams == {<<FRaw, FCtl>>}
CloseMsgs    == {WireFrame(FStats), ShortMsg}

\* What a peer may put on a one-shot unidirectional stream.
MaxUniStreams == 3
UniMsgs == MsgPool \cup {TrailingMsg, CutShortMsg}

\* Sizes of the chunks read_chunk hands over: single bytes, a few bytes, a
\* whole header, everything that is there.
ChunkSizes(w) == {n \in {1, 7, FRAME_HEADER_SIZE, Len(w)} : 1 <= n /\ n <= Len(w)}

-----------------------------------------------------------------------------
(* run_quic_server and handle_connection                                    *)

\* run_quic_server awaiting handle_connection in its loop instead of spawning
\* it: the next attempt is taken only when the earlier connections are over.
Accept_AfterPrevious(c) ==
    /\ conn[c] = "none"
    /\ \A d \in Conns : d < c => (conn[d] = "failed" \/ joined[d])
    /\ conn' = [conn EXCEPT ![c] = "handshake"]
    /\ UNCHANGED <<joined, biVars, uniVars, dgVars, chanVars, budget, codecVars, presVars, libVars>>

\* run_quic_server ending on the first connection that failed.
Accept_UnlessFailed(c) ==
    /\ conn[c] = "none"
    /\ \A d \in Conns : d < c => conn[d] # "none"
    /\ \A d \in Conns : conn[d] # "failed"
    /\ conn' = [conn EXCEPT ![c] = "handshake"]
    /\ UNCHANGED <<joined, biVars, uniVars, dgVars, chanVars, budget, codecVars, presVars, libVars>>

\* endpoint.accept() returned a connection attempt; run_quic_server spawns a
\* task for it and loops to accept again at once.
Accept(c) ==
    /\ conn[c] = "none"
    /\ \A d \in Conns : d < c => conn[d] # "none"
    /\ conn' = [conn EXCEPT ![c] = "handshake"]
    /\ UNCHANGED <<joined, biVars, uniVars, dgVars, chanVars, budget, codecVars, presVars, libVars>>

\* connecting.await is Ok: handle_connection spawns bi_task, uni_task and
\* dgram_task, each with a clone of tx.
HandshakeOk(c) ==
    /\ conn[c] = "handshake"
    /\ conn' = [conn EXCEPT ![c] = "open"]
    /\ biPc' = [biPc EXCEPT ![c] = "accept"]
    /\ uniPc' = [uniPc EXCEPT ![c] = "accept"]
    /\ dgPc' = [dgPc EXCEPT ![c] = "accept"]
    /\ UNCHANGED <<joined, biBuf, biNeed, biFrame, biRes, wire, sentBi, cut, emitBi,
                   uniFrame, dgFrame, chanVars, budget, codecVars, presVars, libVars>>

\* connecting.await is Err: logged; the spawned task ends.
HandshakeFail(c) ==
    /\ conn[c] = "handshake"
    /\ conn' = [conn EXCEPT ![c] = "failed"]
    /\ UNCHANGED <<joined, biVars, uniVars, dgVars, chanVars, budget, codecVars, presVars, libVars>>

\* The peer closes the connection, or the idle timeout fires.
ConnClose(c) ==
    /\ conn[c] = "open"
    /\ conn' = [conn EXCEPT ![c] = "closed"]
    /\ UNCHANGED <<joined, biVars, uniVars, dgVars, chanVars, budget, codecVars, presVars, libVars>>

\* handle_connection returning as soon as one of its tasks has ended.
Join_Either(c) ==
    /\ ~joined[c]
    /\ \/ biPc[c] = "done"
       \/ uniPc[c] = "done"
       \/ dgPc[c] \in {"done", "panicked"}
    /\ joined' = [joined EXCEPT ![c] = TRUE]
    /\ UNCHANGED <<conn, biVars, uniVars, dgVars, chanVars, budget, codecVars, presVars, libVars>>

\* tokio::join!(bi_task, uni_task, dgram_task) completes; handle_connection
\* returns Ok.
Join(c) ==
    /\ ~joined[c]
    /\ biPc[c] = "done"
    /\ uniPc[c] = "done"
    /\ dgPc[c] \in {"done", "panicked"}
    /\ joined' = [joined EXCEPT ![c] = TRUE]
    /\ UNCHANGED <<conn, biVars, uniVars, dgVars, chanVars, budget, codecVars, presVars, libVars>>

-----------------------------------------------------------------------------
(* bi_task and handle_frame_byte_stream                                     *)

\* bi_task breaking out of its loop when the handler returns an error.
BiReturn_EndsTask(c, res) ==
    /\ biRes' = [biRes EXCEPT ![c] = res]
    /\ biPc' = [biPc EXCEPT ![c] = IF res = "err" THEN "done" ELSE "accept"]
    /\ biBuf' = [biBuf EXCEPT ![c] = <<>>]
    /\ biNeed' = [biNeed EXCEPT ![c] = 0]
    /\ biFrame' = [biFrame EXCEPT ![c] = NoFrame]
    /\ wire' = [wire EXCEPT ![c] = <<>>]

\* handle_frame_byte_stream returns (Ok or Err); bi_task logs an Err and loops
\* back to conn_bi.accept_bi().  buf and the RecvStream are dropped, and with
\* the stream whatever had not been read from it.
BiReturn(c, res) ==
    /\ biRes' = [biRes EXCEPT ![c] = res]
    /\ biPc' = [biPc EXCEPT ![c] = "accept"]
    /\ biBuf' = [biBuf EXCEPT ![c] = <<>>]
    /\ biNeed' = [biNeed EXCEPT ![c] = 0]
    /\ biFrame' = [biFrame EXCEPT ![c] = NoFrame]
    /\ wire' = [wire EXCEPT ![c] = <<>>]

\* A bi_task that spawns a handler per stream: the next stream is taken while
\* the handler of the earlier one is still running.
BiAccept_PerStream(c, fs) ==
    /\ conn[c] = "open"
    /\ biPc[c] \in {"accept", "hdr", "payload", "send"}
    /\ budget > 0
    /\ budget' = budget - 1
    /\ biPc' = [biPc EXCEPT ![c] = "hdr"]
    /\ biBuf' = [biBuf EXCEPT ![c] = <<>>]
    /\ wire' = [wire EXCEPT ![c] = WireStream(fs)]
    /\ sentBi' = [sentBi EXCEPT ![c] = fs]
    /\ cut' = [cut EXCEPT ![c] = FALSE]
    /\ emitBi' = [emitBi EXCEPT ![c] = <<>>]
    /\ UNCHANGED <<biNeed, biFrame, biRes, connVars, uniVars, dgVars, chanVars, codecVars, presVars, libVars>>

\* accept_bi() is Ok: a new stream carrying the frames fs; the handler starts
\* with an empty buf.
BiAccept(c, fs) ==
    /\ conn[c] = "open"
    /\ biPc[c] = "accept"
    /\ budget > 0
    /\ budget' = budget - 1
    /\ biPc' = [biPc EXCEPT ![c] = "hdr"]
    /\ biBuf' = [biBuf EXCEPT ![c] = <<>>]
    /\ wire' = [wire EXCEPT ![c] = WireStream(fs)]
    /\ sentBi' = [sentBi EXCEPT ![c] = fs]
    /\ cut' = [cut EXCEPT ![c] = FALSE]
    /\ emitBi' = [emitBi EXCEPT ![c] = <<>>]
    /\ UNCHANGED <<biNeed, biFrame, biRes, connVars, uniVars, dgVars, chanVars, codecVars, presVars, libVars>>

\* accept_bi() is Err (connection closed): break.
BiAcceptErr(c) ==
    /\ conn[c] = "closed"
    /\ biPc[c] = "accept"
    /\ biPc' = [biPc EXCEPT ![c] = "done"]
    /\ UNCHANGED <<biBuf, biNeed, biFrame, biRes, wire, sentBi, cut, emitBi,
                   connVars, uniVars, dgVars, chanVars, budget, codecVars, presVars, libVars>>

\* The handler is waiting in one of its two read_chunk loops.
BiWaitsForBytes(c) ==
    \/ biPc[c] = "hdr" /\ Len(biBuf[c]) < FRAME_HEADER_SIZE
    \/ biPc[c] = "payload" /\ Len(biBuf[c]) < biNeed[c]

\* read_chunk(max, true) is Ok(Some(chunk)) with n bytes:
\* buf.extend_from_slice(&chunk.bytes).
BiRead(c, n) ==
    /\ conn[c] = "open"
    /\ BiWaitsForBytes(c)
    /\ 1 <= n
    /\ n <= Len(wire[c])
    /\ n <= (IF biPc[c] = "hdr" THEN HDR_CHUNK_MAX ELSE PAYLOAD_CHUNK_MAX)
    /\ biBuf' = [biBuf EXCEPT ![c] = @ \o SubSeq(wire[c], 1, n)]
    /\ wire' = [wire EXCEPT ![c] = Drop(@, n)]
    /\ UNCHANGED <<biPc, biNeed, biFrame, biRes, sentBi, cut, emitBi,
                   connVars, uniVars, dgVars, chanVars, budget, codecVars, presVars, libVars>>

\* The sender finishes the stream without writing the rest of its frames.
StreamCut(c) ==
    /\ conn[c] = "open"
    /\ biPc[c] \in {"hdr", "payload", "send"}
    /\ wire[c] # <<>>
    /\ wire' = [wire EXCEPT ![c] = <<>>]
    /\ cut' = [cut EXCEPT ![c] = TRUE]
    /\ UNCHANGED <<biPc, biBuf, biNeed, biFrame, biRes, sentBi, emitBi,
                   connVars, uniVars, dgVars, chanVars, budget, codecVars, presVars, libVars>>

\* A handler that reports the end of the stream inside a frame as an error.
BiEof_Fails(c) ==
    /\ conn[c] = "open"
    /\ BiWaitsForBytes(c)
    /\ wire[c] = <<>>
    /\ BiReturn(c, IF biBuf[c] = <<>> THEN "ok" ELSE "err")
    /\ UNCHANGED <<sentBi, cut, emitBi,
                   connVars, uniVars, dgVars, chanVars, budget, codecVars, presVars, libVars>>

\* read_chunk is Ok(None), the end of the stream: return Ok(()).
BiEof(c) ==
    /\ conn[c] = "open"
    /\ BiWaitsForBytes(c)
    /\ wire[c] = <<>>
    /\ BiReturn(c, "ok")
    /\ UNCHANGED <<sentBi, cut, emitBi,
                   connVars, uniVars, dgVars, chanVars, budget, codecVars, presVars, libVars>>

\* read_chunk is Err (the peer reset the stream, or the connection is lost):
\* the `?` returns the error.
BiReadErr(c) ==
    /\ conn[c] \in {"open", "closed"}
    /\ BiWaitsForBytes(c)
    /\ BiReturn(c, "err")
    /\ cut' = [cut EXCEPT ![c] = TRUE]
    /\ UNCHANGED <<sentBi, emitBi, connVars, uniVars, dgVars, chanVars, budget, codecVars, presVars, libVars>>

\* Lines 639-656: peek at the header; bail on a wrong version or a payload over
\* the ceiling, else compute total_needed.
BiPeek(c) ==
    /\ biPc[c] = "hdr"
    /\ Len(biBuf[c]) >= FRAME_HEADER_SIZE
    /\ LET h == HeaderFields(SubSeq(biBuf[c], 1, FRAME_HEADER_SIZE)) IN
         IF PeekAccepts(h)
         THEN /\ biNeed' = [biNeed EXCEPT ![c] = FRAME_HEADER_SIZE + h.payload_size]
              /\ biPc' = [biPc EXCEPT ![c] = "payload"]
              /\ UNCHANGED <<biBuf, biFrame, biRes, wire>>
         ELSE BiReturn(c, "err")
    /\ UNCHANGED <<sentBi, cut, emitBi,
                   connVars, uniVars, dgVars, chanVars, budget, codecVars, presVars, libVars>>

\* Lines 667-705: split total_needed bytes off buf and parse them; an unknown
\* frame_type or a short payload is logged and the loop continues.
BiConsume(c) ==
    /\ biPc[c] = "payload"
    /\ Len(biBuf[c]) >= biNeed[c]
    /\ LET r == ConsumeFrame(SubSeq(biBuf[c], 1, biNeed[c])) IN
         /\ biBuf' = [biBuf EXCEPT ![c] = Drop(@, biNeed[c])]
         /\ biNeed' = [biNeed EXCEPT ![c] = 0]
         /\ IF r.kind = "frame"
            THEN /\ biFrame' = [biFrame EXCEPT ![c] = r.frame]
                 /\ biPc' = [biPc EXCEPT ![c] = "send"]
            ELSE /\ biPc' = [biPc EXCEPT ![c] = "hdr"]
                 /\ UNCHANGED biFrame
    /\ UNCHANGED <<biRes, wire, sentBi, cut, emitBi,
                   connVars, uniVars, dgVars, chanVars, budget, codecVars, presVars, libVars>>

\* tx.send(frame).await completes with Ok: the channel had a free slot.
BiSendOk(c) ==
    /\ biPc[c] = "send"
    /\ rxOpen
    /\ Len(chan) < CHANNEL_CAPACITY
    /\ chan' = Append(chan, biFrame[c])
    /\ emitBi' = [emitBi EXCEPT ![c] = Append(@, biFrame[c])]
    /\ biFrame' = [biFrame EXCEPT ![c] = NoFrame]
    /\ biPc' = [biPc EXCEPT ![c] = "hdr"]
    /\ UNCHANGED <<biBuf, biNeed, biRes, wire, sentBi, cut,
                   connVars, uniVars, dgVars, rxOpen, seen, budget, codecVars, presVars, libVars>>

\* bi_task ending when its handler finds the channel closed.
BiSendClosed_EndsTask(c) ==
    /\ biPc[c] = "send"
    /\ ~rxOpen
    /\ biRes' = [biRes EXCEPT ![c] = "ok"]
    /\ biPc' = [biPc EXCEPT ![c] = "done"]
    /\ biBuf' = [biBuf EXCEPT ![c] = <<>>]
    /\ biNeed' = [biNeed EXCEPT ![c] = 0]
    /\ biFrame' = [biFrame EXCEPT ![c] = NoFrame]
    /\ wire' = [wire EXCEPT ![c] = <<>>]
    /\ UNCHANGED <<sentBi, cut, emitBi,
                   connVars, uniVars, dgVars, chanVars, budget, codecVars, presVars, libVars>>

\* tx.send(frame).await completes with Err (the receiver is gone):
\* return Ok(()).
BiSendClosed(c) ==
    /\ biPc[c] = "send"
    /\ ~rxOpen
    /\ BiReturn(c, "ok")
    /\ UNCHANGED <<sentBi, cut, emitBi,
                   connVars, uniVars, dgVars, chanVars, budget, codecVars, presVars, libVars>>

-----------------------------------------------------------------------------
(* uni_task and dgram_task                                                  *)

\* A uni_task that gives up at the first stream it cannot use.
UniAccept_BreaksOnFailure(c, data) ==
    /\ conn[c] = "open"
    /\ uniPc[c] = "accept"
    /\ budget > 0
    /\ budget' = budget - 1
    /\ LET r == IF Len(data) > MAX_FRAME_PAYLOAD_SIZE + FRAME_HEADER_SIZE
                   \/ Len(data) < FRAME_HEADER_SIZE
                THEN [kind |-> "err", frame |-> NoFrame]
                ELSE SingleFrameParse(data)
       IN  IF r.kind = "frame"
           THEN /\ uniFrame' = [uniFrame EXCEPT ![c] = r.frame]
                /\ uniPc' = [uniPc EXCEPT ![c] = "send"]
           ELSE /\ uniPc' = [uniPc EXCEPT ![c] = "done"]
                /\ UNCHANGED uniFrame
    /\ UNCHANGED <<connVars, biVars, dgVars, chanVars, codecVars, presVars, libVars>>

\* accept_uni() is Ok and read_to_end collects the stream's bytes `data`.  A
\* stream longer than the limit, or shorter than a header, and a frame that
\* does not parse are logged; the loop continues.  A frame that parses is sent.
UniAccept(c, data) ==
    /\ conn[c] = "open"
    /\ uniPc[c] = "accept"
    /\ budget > 0
    /\ budget' = budget - 1
    /\ LET r == IF Len(data) > MAX_FRAME_PAYLOAD_SIZE + FRAME_HEADER_SIZE
                   \/ Len(data) < FRAME_HEADER_SIZE
                THEN [kind |-> "err", frame |-> NoFrame]
                ELSE SingleFrameParse(data)
       IN  IF r.kind = "frame"
           THEN /\ uniFrame' = [uniFrame EXCEPT ![c] = r.frame]
                /\ uniPc' = [uniPc EXCEPT ![c] = "send"]
           ELSE UNCHANGED <<uniPc, uniFrame>>
    /\ UNCHANGED <<connVars, biVars, dgVars, chanVars, codecVars, presVars, libVars>>

\* accept_uni() is Ok but read_to_end fails (the peer reset the stream): a
\* warning, and the loop continues.
UniReadErr(c) ==
    /\ conn[c] = "open"
    /\ uniPc[c] = "accept"
    /\ budget > 0
    /\ budget' = budget - 1
    /\ UNCHANGED <<uniVars, connVars, biVars, dgVars, chanVars, codecVars, presVars, libVars>>

\* accept_uni() is Err (connection closed): break.
UniAcceptErr(c) ==
    /\ conn[c] = "closed"
    /\ uniPc[c] = "accept"
    /\ uniPc' = [uniPc EXCEPT ![c] = "done"]
    /\ UNCHANGED <<uniFrame, connVars, biVars, dgVars, chanVars, budget, codecVars, presVars, libVars>>

\* tx.send(frame).await of handle_single_frame_datagramlike completes with Ok.
UniSendOk(c) ==
    /\ uniPc[c] = "send"
    /\ rxOpen
    /\ Len(chan) < CHANNEL_CAPACITY
    /\ chan' = Append(chan, uniFrame[c])
    /\ uniFrame' = [uniFrame EXCEPT ![c] = NoFrame]
    /\ uniPc' = [uniPc EXCEPT ![c] = "accept"]
    /\ UNCHANGED <<connVars, biVars, dgVars, rxOpen, seen, budget, codecVars, presVars, libVars>>

\* tx.send(frame).await completes with Err, mapped to "Frame channel closed":
\* uni_task logs it and loops.
UniSendClosed(c) ==
    /\ uniPc[c] = "send"
    /\ ~rxOpen
    /\ uniFrame' = [uniFrame EXCEPT ![c] = NoFrame]
    /\ uniPc' = [uniPc EXCEPT ![c] = "accept"]
    /\ UNCHANGED <<connVars, biVars, dgVars, chanVars, budget, codecVars, presVars, libVars>>

\* read_datagram() is Ok(dgram): parse it as one frame.  A parse error is
\* logged and the loop continues; a datagram shorter than the header makes a
\* Buf getter panic, which ends the task.
DgRecv(c, data) ==
    /\ conn[c] = "open"
    /\ dgPc[c] = "accept"
    /\ budget > 0
    /\ budget' = budget - 1
    /\ LET r == SingleFrameParse(data) IN
         CASE r.kind = "frame" ->
                /\ dgFrame' = [dgFrame EXCEPT ![c] = r.frame]
                /\ dgPc' = [dgPc EXCEPT ![c] = "send"]
           [] r.kind = "panic" ->
                /\ dgPc' = [dgPc EXCEPT ![c] = "panicked"]
                /\ UNCHANGED dgFrame
           [] OTHER -> UNCHANGED <<dgPc, dgFrame>>
    /\ UNCHANGED <<connVars, biVars, uniVars, chanVars, codecVars, presVars, libVars>>

\* read_datagram() is Err (connection closed): break.
DgRecvErr(c) ==
    /\ conn[c] = "closed"
    /\ dgPc[c] = "accept"
    /\ dgPc' = [dgPc EXCEPT ![c] = "done"]
    /\ UNCHANGED <<dgFrame, connVars, biVars, uniVars, chanVars, budget, codecVars, presVars, libVars>>

\* try_send in place of send(..).await: a frame that finds the channel full
\* is dropped.
DgSendOk_DropWhenFull(c) ==
    /\ dgPc[c] = "send"
    /\ rxOpen
    /\ chan' = IF Len(chan) < CHANNEL_CAPACITY THEN Append(chan, dgFrame[c]) ELSE chan
    /\ dgFrame' = [dgFrame EXCEPT ![c] = NoFrame]
    /\ dgPc' = [dgPc EXCEPT ![c] = "accept"]
    /\ UNCHANGED <<connVars, biVars, uniVars, rxOpen, seen, budget, codecVars, presVars, libVars>>

\* tx.send(frame).await of handle_single_frame_datagramlike (dgram_task)
\* completes with Ok.
DgSendOk(c) ==
    /\ dgPc[c] = "send"
    /\ rxOpen
    /\ Len(chan) < CHANNEL_CAPACITY
    /\ chan' = Append(chan, dgFrame[c])
    /\ dgFrame' = [dgFrame EXCEPT ![c] = NoFrame]
    /\ dgPc' = [dgPc EXCEPT ![c] = "accept"]
    /\ UNCHANGED <<connVars, biVars, uniVars, rxOpen, seen, budget, codecVars, presVars, libVars>>

\* tx.send(frame).await completes with Err: dgram_task logs it and loops.
DgSendClosed(c) ==
    /\ dgPc[c] = "send"
    /\ ~rxOpen
    /\ dgFrame' = [dgFrame EXCEPT ![c] = NoFrame]
    /\ dgPc' = [dgPc EXCEPT ![c] = "accept"]
    /\ UNCHANGED <<connVars, biVars, uniVars, chanVars, budget, codecVars, presVars, libVars>>

-----------------------------------------------------------------------------
(* The presenter's end of the channel (main)                                *)

\* A receiver that hands out the newest queued frame instead of the oldest.
PresenterRecv_TakesNewest ==
    /\ rxOpen
    /\ chan # <<>>
    /\ seen' = Append(seen, chan[Len(chan)])
    /\ chan' = SubSeq(chan, 1, Len(chan) - 1)
    /\ UNCHANGED <<rxOpen, connVars, biVars, uniVars, dgVars, budget, codecVars, presVars, libVars>>

\* rx.try_recv() is Ok(frame).
PresenterRecv ==
    /\ rxOpen
    /\ chan # <<>>
    /\ seen' = Append(seen, Head(chan))
    /\ chan' = Tail(chan)
    /\ UNCHANGED <<rxOpen, connVars, biVars, uniVars, dgVars, budget, codecVars, presVars, libVars>>

\* The presenter loop ends (window closed or Escape) and main returns: rx is
\* dropped, which closes the channel and discards what is queued.
PresenterExit ==
    /\ rxOpen
    /\ rxOpen' = FALSE
    /\ chan' = <<>>
    /\ UNCHANGED <<seen, connVars, biVars, uniVars, dgVars, budget, codecVars, presVars, libVars>>

-----------------------------------------------------------------------------
(* The presenter: main's window loop, its framebuffer and its decoder       *)

\* main starts with a 1920 x 1080 window; scaled down here.
INIT_WIDTH == 2
INIT_HEIGHT == 2

\* Frames the acceptors hand to the presenter in one run.
MaxPresFrames == 2

\* vec![0; n]
Zeros(n) == [i \in 1..n |-> 0]

\* Vec::resize(new_len, 0): truncate, or extend with zeros.
VecResize(v, n) ==
    IF n <= Len(v) THEN SubSeq(v, 1, n) ELSE v \o Zeros(n - Len(v))

\* A resize that records the new dimensions and forgets the buffer.
resize_window_and_buffers_DimsOnly(w, h, buf, new_width, new_height) ==
    IF new_width = 0 \/ new_height = 0
    THEN [width |-> w, height |-> h, buffer |-> buf]
    ELSE [width |-> new_width, height |-> new_height, buffer |-> buf]

\* resize_window_and_buffers without its zero check.
resize_window_and_buffers_NoZeroCheck(w, h, buf, new_width, new_height) ==
    IF new_width # w \/ new_height # h
    THEN [width |-> new_width, height |-> new_height,
          buffer |-> VecResize(buf, new_width * new_height)]
    ELSE [width |-> w, height |-> h, buffer |-> buf]

\* resize_window_and_buffers: the values of *width, *height and *buffer when
\* it returns.
resize_window_and_buffers(w, h, buf, new_width, new_height) ==
    IF new_width = 0 \/ new_height = 0
    THEN [width |-> w, height |-> h, buffer |-> buf]
    ELSE IF new_width # w \/ new_height # h
    THEN [width |-> new_width, height |-> new_height,
          buffer |-> VecResize(buf, new_width * new_height)]
    ELSE [width |-> w, height |-> h, buffer |-> buf]

\* i32::clamp(0, 255) as u8
Clamp255(x) == IF x < 0 THEN 0 ELSE IF x > 255 THEN 255 ELSE x

\* A shift that rounds towards zero, as integer division in Rust does.
Shr10_TowardsZero(x) == IF x >= 0 THEN x \div 1024 ELSE -((-x) \div 1024)

\* x >> 10 on an i32: the arithmetic shift rounds towards minus infinity.
Shr10(x) == IF x >= 0 THEN x \div 1024 ELSE -((-x + 1023) \div 1024)

\* A conversion that takes the luma as full range: no offset, no scaling.
yuv_to_rgb_bt709_FullRange(y, u, v) ==
    LET u_i == u - 128
        v_i == v - 128
    IN  << Clamp255(y + Shr10(1836 * v_i)),
           Clamp255(y - Shr10(218 * u_i + 545 * v_i)),
           Clamp255(y + Shr10(2160 * u_i)) >>

\* yuv_to_rgb_bt709_limited: <<r, g, b>>.
yuv_to_rgb_bt709_limited(y, u, v) ==
    LET y_i == y - 16
        u_i == u - 128
        v_i == v - 128
        y_scaled == Shr10(y_i * 1192)
    IN  << Clamp255(y_scaled + Shr10(1836 * v_i)),
           Clamp255(y_scaled - Shr10(218 * u_i + 545 * v_i)),
           Clamp255(y_scaled + Shr10(2160 * u_i)) >>

\* ((r as u32) << 16) | ((g as u32) << 8) | (b as u32)
Pack(r, g, b) == r * 65536 + g * 256 + b

\* let y_idx = row * y_stride + col
LumaIndex(row, col, stride) == row * stride + col

\* A chroma index taken as if the planes were not subsampled.
ChromaIndex_FullSize(row, col, stride) == row * stride + col

\* uv_row = row / 2, uv_col = col / 2, u_idx = uv_row * u_stride + uv_col
ChromaIndex(row, col, stride) == (row \div 2) * stride + (col \div 2)

\* The pixel the conversion loop computes for (row, col) of a decoded picture:
\* luma at row * y_stride + col, chroma subsampled 2 x 2.
PicturePixel(pic, row, col) ==
    LET y == pic.y[LumaIndex(row, col, pic.y_stride) + 1]
        u == pic.u[ChromaIndex(row, col, pic.u_stride) + 1]
        v == pic.v[ChromaIndex(row, col, pic.v_stride) + 1]
        rgb == yuv_to_rgb_bt709_limited(y, u, v)
    IN  Pack(rgb[1], rgb[2], rgb[3])

\* A conversion loop that indexes the framebuffer with the luma stride.
ConvertPicture_StrideIndexed(buf, pic) ==
    [i \in 1..Len(buf) |->
        IF /\ (i - 1) % pic.y_stride < pic.w
           /\ (i - 1) \div pic.y_stride < pic.h
        THEN PicturePixel(pic, (i - 1) \div pic.y_stride, (i - 1) % pic.y_stride)
        ELSE buf[i]]

\* The conversion loop of the H264 arm (rows 0..dec_height, cols
\* 0..dec_width): pixel_idx = row * dec_width + col is written when it is
\* inside the buffer.
ConvertPicture(buf, pic) ==
    [i \in 1..Len(buf) |->
        IF i - 1 < pic.w * pic.h
        THEN PicturePixel(pic, (i - 1) \div pic.w, (i - 1) % pic.w)
        ELSE buf[i]]

\* A raw copy that reads the payload as B, G, R, A.
RawCopy_Bgra(buf, data) ==
    LET max_pixels == Min(Len(buf), Len(data) \div 4)
    IN  [i \in 1..Len(buf) |->
            IF i <= max_pixels
            THEN Pack(data[4 * (i - 1) + 3], data[4 * (i - 1) + 2], data[4 * (i - 1) + 1])
            ELSE buf[i]]

\* The Raw arm's loop: max_pixels = min(buffer.len(), rgba_data.len() / 4)
\* pixels, each from bytes base, base + 1, base + 2.
RawCopy(buf, data) ==
    LET max_pixels == Min(Len(buf), Len(data) \div 4)
    IN  [i \in 1..Len(buf) |->
            IF i <= max_pixels
            THEN Pack(data[4 * (i - 1) + 1], data[4 * (i - 1) + 2], data[4 * (i - 1) + 3])
            ELSE buf[i]]

\* An H264 arm that counts every frame handed to the decoder.
H264Arm_CountsEveryCall(fb, d) ==
    IF d.kind = "pic"
    THEN LET r == resize_window_and_buffers(fb.width, fb.height, fb.buffer,
                                             d.pic.w, d.pic.h)
         IN  [width |-> r.width, height |-> r.height,
              buffer |-> ConvertPicture(r.buffer, d.pic), h264 |-> 1, raw |-> 0]
    ELSE [width |-> fb.width, height |-> fb.height, buffer |-> fb.buffer,
          h264 |-> 1, raw |-> 0]

\* The H264 arm on the decoder's result d: Ok(Some(decoded)), Ok(None) or Err.
H264Arm(fb, d) ==
    IF d.kind = "pic"
    THEN LET r == resize_window_and_buffers(fb.width, fb.height, fb.buffer,
                                             d.pic.w, d.pic.h)
         IN  [width |-> r.width, height |-> r.height,
              buffer |-> ConvertPicture(r.buffer, d.pic), h264 |-> 1, raw |-> 0]
    ELSE [width |-> fb.width, height |-> fb.height, buffer |-> fb.buffer,
          h264 |-> 0, raw |-> 0]

\* The Raw arm.
RawArm(fb, data) ==
    [width |-> fb.width, height |-> fb.height,
     buffer |-> RawCopy(fb.buffer, data), h264 |-> 0, raw |-> 1]

\* An arm for the other frame types that counts them as raw frames.
OtherArm_CountsRaw(fb) ==
    [width |-> fb.width, height |-> fb.height, buffer |-> fb.buffer,
     h264 |-> 0, raw |-> 1]

\* An arm for the other frame types that blanks the framebuffer.
OtherArm_Blanks(fb) ==
    [width |-> fb.width, height |-> fb.height,
     buffer |-> Zeros(Len(fb.buffer)), h264 |-> 0, raw |-> 0]

\* The `_` arm (Control, Stats): a debug line only.
OtherArm(fb) ==
    [width |-> fb.width, height |-> fb.height, buffer |-> fb.buffer,
     h264 |-> 0, raw |-> 0]

\* The body of the drain loop for frame f, the decoder answering d: resize to
\* the header's dimensions, then match on frame_type.
ProcessFrame(w, h, buf, f, d) ==
    LET fb == resize_window_and_buffers(w, h, buf, f.width, f.height)
    IN  CASE f.frame_type = "H264" -> H264Arm(fb, d)
          [] f.frame_type = "Raw"  -> RawArm(fb, f.rgba_data)
          [] OTHER                 -> OtherArm(fb)

\* ---- what reaches the presenter ----

\* FrameData as the acceptors build it.
PFrame(w, h, data, sq, ft) ==
    [width |-> w, height |-> h, rgba_data |-> data, sequence |-> sq,
     frame_type |-> ft]

\* Four pixels: red, green, blue, white, each with alpha 255.
RgbwPayload == <<255, 0, 0, 255,  0, 255, 0, 255,  0, 0, 255, 255,  255, 255, 255, 255>>

PRaw22     == PFrame(2, 2, RgbwPayload, 1, "Raw")
\* one pixel and two stray bytes
PRawShort  == PFrame(2, 2, <<1, 2, 3, 4, 5, 6>>, 2, "Raw")
\* other dimensions, fewer pixels than the frame's area
PRawWide   == PFrame(3, 1, <<10, 20, 30, 40, 50, 60, 70, 80>>, 3, "Raw")
\* zero dimensions, more pixels than the framebuffer holds
PRawZero   == PFrame(0, 0, RgbwPayload \o <<9, 9, 9, 9>>, 4, "Raw")
PH264      == PFrame(2, 2, <<103>>, 5, "H264")
PH264Small == PFrame(1, 2, <<65>>, 6, "H264")
PCtl       == PFrame(2, 2, <<7>>, 7, "Control")
PCtlDims   == PFrame(1, 1, <<7, 7>>, 8, "Control")
PStats     == PFrame(0, 0, <<>>, 9, "Stats")
PStatsDims == PFrame(2, 3, <<>>, 10, "Stats")
\* one dimension zero
PCtlZeroW  == PFrame(0, 3, <<7>>, 11, "Control")

PresFrames == {PRaw22, PRawShort, PRawWide, PRawZero, PH264, PH264Small,
               PCtl, PCtlDims, PStats, PStatsDims, PCtlZeroW}

\* A decoded picture: planar 4:2:0 with its strides.
Picture(w, h, ys, us, vs, y, u, v) ==
    [w |-> w, h |-> h, y_stride |-> ys, u_stride |-> us, v_stride |-> vs,
     y |-> y, u |-> u, v |-> v]

Pic22  == Picture(2, 2, 2, 1, 1, <<16, 235, 81, 145>>, <<128>>, <<128>>)
\* strides wider than the picture
Pic21  == Picture(2, 1, 3, 2, 2, <<235, 16, 77>>, <<90, 77>>, <<240, 77>>)
\* two chroma rows, a luma stride wider than the picture
Pic13  == Picture(1, 3, 2, 1, 1, <<41, 77, 126, 77, 210>>, <<240, 16>>, <<110, 200>>)

PicPool == {Pic22, Pic21, Pic13}

NoPic == Picture(0, 0, 1, 1, 1, <<>>, <<>>, <<>>)

\* What h264_decoder.decode can answer: Ok(Some(picture)), Ok(None), Err.
DecodeResults ==
    {[kind |-> "none", pic |-> NoPic], [kind |-> "err", pic |-> NoPic]}
      \cup {[kind |-> "pic", pic |-> p] : p \in PicPool}

\* The decoder is not called for this frame.
NotDecoded == [kind |-> "unused", pic |-> NoPic]

NoShow == [buffer |-> <<>>, width |-> 0, height |-> 0]

\* ---- the presenter's steps ----

\* An acceptor's tx.send completes: frame f is queued for the presenter.
Enqueue(f) ==
    /\ rxOpen
    /\ budget > 0
    /\ Len(chan) < CHANNEL_CAPACITY
    /\ chan' = Append(chan, f)
    /\ budget' = budget - 1
    /\ UNCHANGED <<rxOpen, seen, connVars, biVars, uniVars, dgVars,
                   codecVars, presVars, libVars>>

\* One pass of `while let Ok(frame) = rx.try_recv()`: the frame is taken,
\* processed and counted.
DrainFrame(d) ==
    /\ ppc = "drain"
    /\ rxOpen
    /\ chan # <<>>
    /\ LET f == Head(chan)
           r == ProcessFrame(width, height, buffer, f, d)
       IN  /\ (d = NotDecoded) <=> (f.frame_type # "H264")
           /\ width' = r.width
           /\ height' = r.height
           /\ buffer' = r.buffer
           /\ h264_frames' = h264_frames + r.h264
           /\ raw_frames' = raw_frames + r.raw
           /\ frame_count' = frame_count + 1
           /\ total_bytes' = total_bytes + Len(f.rgba_data)
           /\ decLog' = IF f.frame_type = "H264" THEN Append(decLog, d.kind) ELSE decLog
           /\ seen' = Append(seen, f)
    /\ chan' = Tail(chan)
    /\ UNCHANGED <<teleVars, stop, shown, ppc, rxOpen, budget, connVars, biVars, uniVars,
                   dgVars, codecVars, libVars>>

\* rx.try_recv() finds the channel empty: the drain loop ends.
DrainEmpty ==
    /\ ppc = "drain"
    /\ chan = <<>>
    /\ ppc' = "present"
    /\ UNCHANGED <<teleVars, stop, fbVars, statVars, decLog, shown, netVars, codecVars, libVars>>

\* window.update_with_buffer(&buffer, width, height) returns Ok; the window
\* library refuses a buffer shorter than width * height.
Present ==
    /\ ppc = "present"
    /\ Len(buffer) >= width * height
    /\ shown' = [buffer |-> buffer, width |-> width, height |-> height]
    /\ ppc' = "stats"
    /\ UNCHANGED <<teleVars, stop, fbVars, statVars, decLog, netVars, codecVars, libVars>>

\* update_with_buffer returns Err: `?` makes main return, which drops rx.
PresentErr ==
    /\ ppc = "present"
    /\ ppc' = "exited"
    /\ rxOpen' = FALSE
    /\ chan' = <<>>
    /\ UNCHANGED <<teleVars, stop, fbVars, statVars, decLog, shown, seen, budget, connVars,
                   biVars, uniVars, dgVars, codecVars, libVars>>

\* Duration::from_secs(1) in ticks.
STATS_PERIOD == 2

\* The title the window is created with.
WaitingTitle == [state |-> "waiting", codec |-> "none"]

\* Some time passes; past STATS_PERIOD the stats check no longer tells the
\* readings apart.
Tick ==
    /\ ppc # "exited"
    /\ elapsed < STATS_PERIOD
    /\ elapsed' = elapsed + 1
    /\ UNCHANGED <<title, reported, stop, fbVars, statVars, decLog, shown, ppc, netVars,
                   codecVars, libVars>>

\* A stats line that calls a tie H.264.
DominantCodec_TieIsH264(h264, raw) == IF h264 >= raw THEN "H.264" ELSE "raw"

\* let codec = if h264_frames > raw_frames { "H.264" } else { "raw" }
DominantCodec(h264, raw) == IF h264 > raw THEN "H.264" ELSE "raw"

\* A second has passed since the last stats line: log it, set the title,
\* reset the four counters and last_stats.  Of the title's fields the model
\* keeps the codec.
StatsEmit ==
    /\ ppc = "stats"
    /\ elapsed >= STATS_PERIOD
    /\ title' = [state |-> "stats", codec |-> DominantCodec(h264_frames, raw_frames)]
    /\ reported' = reported + frame_count
    /\ frame_count' = 0
    /\ total_bytes' = 0
    /\ h264_frames' = 0
    /\ raw_frames' = 0
    /\ elapsed' = 0
    /\ ppc' = "check"
    /\ UNCHANGED <<stop, fbVars, decLog, shown, netVars, codecVars, libVars>>

\* Less than a second has passed.
StatsSkip ==
    /\ ppc = "stats"
    /\ elapsed < STATS_PERIOD
    /\ ppc' = "check"
    /\ UNCHANGED <<teleVars, stop, fbVars, statVars, decLog, shown, netVars, codecVars, libVars>>

\* The user closes the window or presses Escape.
StopSignal ==
    /\ ppc # "exited"
    /\ ~stop
    /\ stop' = TRUE
    /\ UNCHANGED <<teleVars, fbVars, statVars, decLog, shown, ppc, netVars,
                   codecVars, libVars>>

\* The same, seen only where the loop looks at it.
StopAtCheck == ppc = "check" /\ StopSignal

\* A loop that looks at the window in its drain as well.
LoopExit_InDrain ==
    /\ ppc \in {"check", "drain"}
    /\ stop
    /\ ppc' = "exited"
    /\ rxOpen' = FALSE
    /\ chan' = <<>>
    /\ UNCHANGED <<teleVars, stop, fbVars, statVars, decLog, shown, seen, budget, connVars,
                   biVars, uniVars, dgVars, codecVars, libVars>>

\* The loop condition holds: the window is open and Escape is not down.
LoopContinue ==
    /\ ppc = "check"
    /\ ~stop
    /\ ppc' = "drain"
    /\ UNCHANGED <<teleVars, stop, fbVars, statVars, decLog, shown, netVars, codecVars, libVars>>

\* The window was closed or Escape is down: the loop ends and main returns.
LoopExit ==
    /\ ppc = "check"
    /\ stop
    /\ ppc' = "exited"
    /\ rxOpen' = FALSE
    /\ chan' = <<>>
    /\ UNCHANGED <<teleVars, stop, fbVars, statVars, decLog, shown, seen, budget, connVars,
                   biVars, uniVars, dgVars, codecVars, libVars>>

-----------------------------------------------------------------------------
(* Specifications                                                           *)

\* The codec harness at rest.
CodecIdle ==
    /\ chdr = DefaultHeader
    /\ cpre = <<>>
    /\ cbuf = <<>>
    /\ cdec = NoDecode
    /\ cpc = "idle"
    /\ ctag = 0
    /\ ctagRes = NoTag

\* The receiver before any connection: main has created the channel and
\* spawned run_quic_server.
NetStart ==
    /\ conn = [c \in Conns |-> "none"]
    /\ joined = [c \in Conns |-> FALSE]
    /\ biPc = [c \in Conns |-> "idle"]
    /\ biBuf = [c \in Conns |-> <<>>]
    /\ biNeed = [c \in Conns |-> 0]
    /\ biFrame = [c \in Conns |-> NoFrame]
    /\ biRes = [c \in Conns |-> "none"]
    /\ wire = [c \in Conns |-> <<>>]
    /\ sentBi = [c \in Conns |-> <<>>]
    /\ cut = [c \in Conns |-> FALSE]
    /\ emitBi = [c \in Conns |-> <<>>]
    /\ uniPc = [c \in Conns |-> "idle"]
    /\ uniFrame = [c \in Conns |-> NoFrame]
    /\ dgPc = [c \in Conns |-> "idle"]
    /\ dgFrame = [c \in Conns |-> NoFrame]
    /\ chan = <<>>
    /\ rxOpen = TRUE
    /\ seen = <<>>

\* The receiver with connection 1 accepted and its three tasks waiting.
NetOneConn ==
    /\ conn = [c \in Conns |-> IF c = 1 THEN "open" ELSE "none"]
    /\ joined = [c \in Conns |-> FALSE]
    /\ biPc = [c \in Conns |-> IF c = 1 THEN "accept" ELSE "idle"]
    /\ biBuf = [c \in Conns |-> <<>>]
    /\ biNeed = [c \in Conns |-> 0]
    /\ biFrame = [c \in Conns |-> NoFrame]
    /\ biRes = [c \in Conns |-> "none"]
    /\ wire = [c \in Conns |-> <<>>]
    /\ sentBi = [c \in Conns |-> <<>>]
    /\ cut = [c \in Conns |-> FALSE]
    /\ emitBi = [c \in Conns |-> <<>>]
    /\ uniPc = [c \in Conns |-> IF c = 1 THEN "accept" ELSE "idle"]
    /\ uniFrame = [c \in Conns |-> NoFrame]
    /\ dgPc = [c \in Conns |-> IF c = 1 THEN "accept" ELSE "idle"]
    /\ dgFrame = [c \in Conns |-> NoFrame]
    /\ chan = <<>>
    /\ rxOpen = TRUE
    /\ seen = <<>>

\* The presenter as main leaves it before the loop: a zeroed framebuffer of
\* the first size, counters at zero, nothing shown yet.
\* No library function has been called.
NoPixel    == [rgb |-> <<0, 0, 0>>, pixel |-> 0, done |-> FALSE]
NewStats   == [frames |-> 0, bytes |-> 0, dropped |-> 0, last_frames |-> 0, last_bytes |-> 0]
NoSnapshot == [total_frames |-> 0, total_bytes |-> 0, dropped_frames |-> 0,
               frame_delta |-> 0, byte_delta |-> 0, taken |-> FALSE]
NoBars     == [kind |-> "none", data |-> <<>>]
NoGeom     == [w |-> 0, h |-> 0, y_stride |-> 0, u_stride |-> 0, v_stride |-> 0,
               buffer_len |-> 0]

\* The threads that share the collector, none of them inside a call.
StatsThreads == {"a", "b"}
NoThread == "none"
IdleThread == [pc |-> "idle", bytes |-> 0, cur_frames |-> 0, cur_bytes |-> 0,
               cur_dropped |-> 0, late |-> FALSE, frame_delta |-> 0, byte_delta |-> 0,
               floor |-> <<0, 0, 0>>]
NoHistory == [begun |-> 0, reset_called |-> FALSE, wrapped |-> FALSE,
              frames_done |-> 0, bytes_done |-> 0, saturated |-> FALSE,
              high |-> <<0, 0, 0>>]

ThreadsIdle ==
    /\ thr = [t \in StatsThreads |-> IdleThread]
    /\ mutex = NoThread
    /\ hist = NoHistory

\* The shell after run() has created the window: no child, and the
\* UiModel as run() fills it in.
MaxChildren == 2
Children == 1..MaxChildren
NoChild == 0
NoShellHistory == [start_clicked |-> FALSE, spawn_called |-> FALSE, restarted |-> NoChild]

ShellIdle ==
    /\ child = NoChild
    /\ procs = [i \in Children |-> "unborn"]
    /\ readers = [i \in Children |-> "none"]
    /\ process_status = "Stopped"
    /\ fullscreen = FALSE
    /\ uiPc = "idle"
    /\ destroyed = FALSE
    /\ shellHist = NoShellHistory

LibIdle ==
    /\ yuv = <<0, 0, 0>>
    /\ rgbPixel = NoPixel
    /\ stats = NewStats
    /\ statsCalls = <<>>
    /\ statsSnap = NoSnapshot
    /\ barsArgs = <<0, 0>>
    /\ barsOut = NoBars
    /\ picGeom = NoGeom
    /\ picVisit = <<>>
    /\ ThreadsIdle
    /\ ShellIdle

PresenterStart ==
    /\ width = INIT_WIDTH
    /\ height = INIT_HEIGHT
    /\ buffer = Zeros(INIT_WIDTH * INIT_HEIGHT)
    /\ frame_count = 0
    /\ total_bytes = 0
    /\ h264_frames = 0
    /\ raw_frames = 0
    /\ decLog = <<>>
    /\ shown = NoShow
    /\ ppc = "check"
    /\ stop = FALSE
    /\ elapsed = 0
    /\ title = WaitingTitle
    /\ reported = 0

\* ---- the codec: encode, damage, decode, try_from ----
InitCodec == CodecInit /\ NetStart /\ PresenterStart /\ LibIdle /\ budget = 0

NextCodec ==
    \/ CodecEncode
    \/ \E i \in {1, 2} : CodecTamper(i)
    \/ \E n \in TruncLens : CodecTruncate(n)
    \/ CodecDecode
    \/ CodecTryFrom

SpecCodec == InitCodec /\ [][NextCodec]_vars

\* ---- one bidirectional stream, read in chunks of any size ----
InitStream == CodecIdle /\ NetOneConn /\ PresenterStart /\ LibIdle /\ budget = 1

NextStream ==
    \/ \E fs \in StreamPool : BiAccept(1, fs)
    \/ \E n \in ChunkSizes(wire[1]) : BiRead(1, n)
    \/ StreamCut(1)
    \/ BiEof(1)
    \/ BiReadErr(1)
    \/ BiPeek(1)
    \/ BiConsume(1)
    \/ BiSendOk(1)
    \/ BiSendClosed(1)
    \/ PresenterRecv
    \/ PresenterExit

SpecStream == InitStream /\ [][NextStream]_vars

\* ---- one connection: its three acceptor tasks, the channel, the presenter ----
Init == CodecIdle /\ NetStart /\ PresenterStart /\ LibIdle /\ budget = MaxMsgs

Next ==
    \/ Accept(1)
    \/ HandshakeOk(1)
    \/ HandshakeFail(1)
    \/ ConnClose(1)
    \/ Join(1)
    \/ \E fs \in SmallStreams : BiAccept(1, fs)
    \/ BiAcceptErr(1)
    \/ BiRead(1, Len(wire[1]))
    \/ BiEof(1)
    \/ BiReadErr(1)
    \/ BiPeek(1)
    \/ BiConsume(1)
    \/ BiSendOk(1)
    \/ BiSendClosed(1)
    \/ \E data \in MsgPool : UniAccept(1, data)
    \/ UniAcceptErr(1)
    \/ UniSendOk(1)
    \/ UniSendClosed(1)
    \/ \E data \in MsgPool : DgRecv(1, data)
    \/ DgRecvErr(1)
    \/ DgSendOk(1)
    \/ DgSendClosed(1)
    \/ PresenterRecv
    \/ PresenterExit

Spec == Init /\ [][Next]_vars

\* ---- the listener and several connections, each sending datagrams ----
InitListener == CodecIdle /\ NetStart /\ PresenterStart /\ LibIdle /\ budget = MaxDgrams

NextListener ==
    \/ \E c \in Conns :
         \/ Accept(c)
         \/ HandshakeOk(c)
         \/ HandshakeFail(c)
         \/ ConnClose(c)
         \/ Join(c)
         \/ BiAcceptErr(c)
         \/ UniAcceptErr(c)
         \/ DgRecv(c, WireFrame(FStats))
         \/ DgRecvErr(c)
         \/ DgSendOk(c)
    \/ PresenterRecv

SpecListener == InitListener /\ [][NextListener]_vars

\* ---- the three parsers on back-to-back frames and odd-sized messages ----
InitParse == CodecIdle /\ NetOneConn /\ PresenterStart /\ LibIdle /\ budget = MaxParseMsgs

NextParse ==
    \/ \E fs \in ParseStreams : BiAccept(1, fs)
    \/ \E n \in ChunkSizes(wire[1]) : BiRead(1, n)
    \/ BiEof(1)
    \/ BiPeek(1)
    \/ BiConsume(1)
    \/ BiSendOk(1)
    \/ \E data \in ParseMsgs : UniAccept(1, data)
    \/ UniSendOk(1)
    \/ \E data \in ParseMsgs : DgRecv(1, data)
    \/ DgSendOk(1)
    \/ PresenterRecv

SpecParse == InitParse /\ [][NextParse]_vars

\* ---- one connection that is closed while its tasks are at work ----
InitClose == CodecIdle /\ NetOneConn /\ PresenterStart /\ LibIdle /\ budget = MaxCloseMsgs

NextClose ==
    \/ ConnClose(1)
    \/ Join(1)
    \/ \E fs \in CloseStreams : BiAccept(1, fs)
    \/ \E n \in {FRAME_HEADER_SIZE, Len(wire[1])} : BiRead(1, n)
    \/ BiReadErr(1)
    \/ BiPeek(1)
    \/ BiConsume(1)
    \/ BiSendOk(1)
    \/ BiSendClosed(1)
    \/ BiAcceptErr(1)
    \/ UniAccept(1, WireFrame(FCtl))
    \/ UniSendOk(1)
    \/ UniSendClosed(1)
    \/ UniAcceptErr(1)
    \/ \E data \in CloseMsgs : DgRecv(1, data)
    \/ DgSendOk(1)
    \/ DgSendClosed(1)
    \/ DgRecvErr(1)
    \/ PresenterRecv
    \/ PresenterExit

\* The runtime keeps polling every task that can make a step, the closed
\* connection fails every pending read and accept, and the presenter keeps
\* draining the channel while it holds rx.
BiProgress(c) ==
    \/ conn[c] = "closed" /\ BiReadErr(c)
    \/ BiPeek(c)
    \/ BiConsume(c)
    \/ BiSendOk(c)
    \/ BiSendClosed(c)
    \/ BiAcceptErr(c)

UniProgress(c) == UniSendOk(c) \/ UniSendClosed(c) \/ UniAcceptErr(c)

DgProgress(c) == DgSendOk(c) \/ DgSendClosed(c) \/ DgRecvErr(c)

FairClose ==
    /\ WF_vars(BiProgress(1))
    /\ WF_vars(UniProgress(1))
    /\ WF_vars(DgProgress(1))
    /\ WF_vars(PresenterRecv)
    /\ WF_vars(Join(1))

SpecClose == InitClose /\ [][NextClose]_vars /\ FairClose

\* ---- the colour conversion on its own ----
\* Byte values around the ends of the studio range, the chroma centre and
\* the ends of the byte range.
ByteSamples == {0, 1, 15, 16, 17, 64, 127, 128, 129, 200, 234, 235, 236, 240, 254, 255}

\* Every luma with neutral chroma, and every triple of samples.
YuvInputs ==
    {<<y, 128, 128>> : y \in Byte}
      \cup {<<y, u, v>> : y \in ByteSamples, u \in ByteSamples, v \in ByteSamples}

\* let (r, g, b) = yuv_to_rgb_bt709_limited(y, u, v), and the pixel the
\* conversion loop packs from it.
ConvertPixel ==
    /\ ~rgbPixel.done
    /\ LET rgb == yuv_to_rgb_bt709_limited(yuv[1], yuv[2], yuv[3])
       IN  rgbPixel' = [rgb |-> rgb, pixel |-> Pack(rgb[1], rgb[2], rgb[3]),
                        done |-> TRUE]
    /\ UNCHANGED <<shellVars, concVars, picGeom, picVisit, yuv, stats, statsCalls, statsSnap, barsArgs, barsOut,
                   codecVars, netVars, presVars>>

InitColour ==
    /\ CodecIdle /\ NetOneConn /\ PresenterStart /\ budget = 0
    /\ yuv \in YuvInputs
    /\ rgbPixel = NoPixel
    /\ stats = NewStats
    /\ statsCalls = <<>>
    /\ statsSnap = NoSnapshot
    /\ barsArgs = <<0, 0>>
    /\ barsOut = NoBars
    /\ picGeom = NoGeom
    /\ picVisit = <<>>
    /\ ThreadsIdle
    /\ ShellIdle

NextColour == ConvertPixel

SpecColour == InitColour /\ [][NextColour]_vars

\* ---- the Stats collector of shared/src/stats.rs ----
\* The counters are AtomicU64: fetch_add wraps.  The model's counters wrap at
\* U64_MODULUS, which stands for 2^64.
U64_MODULUS == 16
MaxStatsCalls == 3

\* The byte counts handed to record_frame: any u64.
StatsBytes == {0, 3, U64_MODULUS - 1}

WrappingAdd(a, b) == (a + b) % U64_MODULUS

\* A subtraction that goes below zero.
SaturatingSub_Plain(a, b) == a - b

\* u64::saturating_sub
SaturatingSub(a, b) == IF a >= b THEN a - b ELSE 0

\* Stats::record_frame(bytes)
record_frame(b) ==
    /\ Len(statsCalls) < MaxStatsCalls
    /\ stats' = [stats EXCEPT !.frames = WrappingAdd(@, 1),
                              !.bytes = WrappingAdd(@, b)]
    /\ statsCalls' = Append(statsCalls, [op |-> "frame", bytes |-> b])
    /\ UNCHANGED <<shellVars, concVars, picGeom, picVisit, statsSnap, yuv, rgbPixel, barsArgs, barsOut,
                   codecVars, netVars, presVars>>

\* Stats::record_drop()
record_drop ==
    /\ Len(statsCalls) < MaxStatsCalls
    /\ stats' = [stats EXCEPT !.dropped = WrappingAdd(@, 1)]
    /\ statsCalls' = Append(statsCalls, [op |-> "drop", bytes |-> 0])
    /\ UNCHANGED <<shellVars, concVars, picGeom, picVisit, statsSnap, yuv, rgbPixel, barsArgs, barsOut,
                   codecVars, netVars, presVars>>

\* Stats::snapshot(); late: at least 100 ms have passed since the snapshot
\* before, so the deltas are taken and last_frames / last_bytes swapped.  Of
\* the rates the model keeps the deltas they are computed from.
snapshot(late) ==
    /\ statsSnap' =
          [total_frames   |-> stats.frames,
           total_bytes    |-> stats.bytes,
           dropped_frames |-> stats.dropped,
           frame_delta    |-> IF late THEN SaturatingSub(stats.frames, stats.last_frames) ELSE 0,
           byte_delta     |-> IF late THEN SaturatingSub(stats.bytes, stats.last_bytes) ELSE 0,
           taken          |-> TRUE]
    /\ stats' = IF late
                THEN [stats EXCEPT !.last_frames = stats.frames,
                                   !.last_bytes = stats.bytes]
                ELSE stats
    /\ UNCHANGED <<shellVars, concVars, picGeom, picVisit, statsCalls, yuv, rgbPixel, barsArgs, barsOut,
                   codecVars, netVars, presVars>>

\* A reset that leaves the drop counter alone.
reset_KeepsDropped ==
    /\ stats' = [NewStats EXCEPT !.dropped = stats.dropped]
    /\ statsCalls' = <<>>
    /\ UNCHANGED <<shellVars, concVars, picGeom, picVisit, statsSnap, yuv, rgbPixel, barsArgs, barsOut,
                   codecVars, netVars, presVars>>

\* Stats::reset()
reset ==
    /\ stats' = NewStats
    /\ statsCalls' = <<>>
    /\ UNCHANGED <<shellVars, concVars, picGeom, picVisit, statsSnap, yuv, rgbPixel, barsArgs, barsOut,
                   codecVars, netVars, presVars>>

InitStats == CodecIdle /\ NetOneConn /\ PresenterStart /\ LibIdle /\ budget = 0

NextStats ==
    \/ \E b \in StatsBytes : record_frame(b)
    \/ record_drop
    \/ \E late \in BOOLEAN : snapshot(late)
    \/ reset

SpecStats == InitStats /\ [][NextStats]_vars

\* ---- the same collector called from several threads, load by load ----
MaxConcCalls == 3

\* The bytes handed to record_frame by the threads.
ConcBytes == {3, U64_MODULUS - 1}

\* What is left unchanged by a step of a thread on the collector.
ConcFrame == UNCHANGED <<shellVars, statsCalls, yuv, rgbPixel, barsArgs, barsOut, picGeom, picVisit,
                         codecVars, netVars, presVars>>

Wraps(a, b) == a + b >= U64_MODULUS

Larger(a, b) == IF a >= b THEN a ELSE b

\* Thread t starts a call.
Begins(t) ==
    /\ thr[t].pc = "idle"
    /\ hist.begun < MaxConcCalls

\* record_frame, first line: self.frames.fetch_add(1)
RecordFrameFrames(t, b) ==
    /\ Begins(t)
    /\ stats' = [stats EXCEPT !.frames = WrappingAdd(@, 1)]
    /\ thr' = [thr EXCEPT ![t].pc = "rf_bytes", ![t].bytes = b]
    /\ hist' = [hist EXCEPT !.begun = @ + 1,
                            !.wrapped = @ \/ Wraps(stats.frames, 1)]
    /\ UNCHANGED <<mutex, statsSnap>>
    /\ ConcFrame

\* record_frame, second line: self.bytes.fetch_add(bytes); the call returns.
RecordFrameBytes(t) ==
    /\ thr[t].pc = "rf_bytes"
    /\ stats' = [stats EXCEPT !.bytes = WrappingAdd(@, thr[t].bytes)]
    /\ thr' = [thr EXCEPT ![t] = IdleThread]
    /\ hist' = [hist EXCEPT !.wrapped = @ \/ Wraps(stats.bytes, thr[t].bytes),
                            !.frames_done = @ + 1,
                            !.bytes_done = @ + thr[t].bytes]
    /\ UNCHANGED <<mutex, statsSnap>>
    /\ ConcFrame

\* record_drop: self.dropped.fetch_add(1)
RecordDrop(t) ==
    /\ Begins(t)
    /\ stats' = [stats EXCEPT !.dropped = WrappingAdd(@, 1)]
    /\ hist' = [hist EXCEPT !.begun = @ + 1,
                            !.wrapped = @ \/ Wraps(stats.dropped, 1)]
    /\ UNCHANGED <<thr, mutex, statsSnap>>
    /\ ConcFrame

\* snapshot: let current_frames = self.frames.load(); the floor is the
\* highest totals the snapshots that have returned so far reported.
SnapLoadFrames(t) ==
    /\ Begins(t)
    /\ thr' = [thr EXCEPT ![t].pc = "sn_bytes", ![t].cur_frames = stats.frames,
                          ![t].floor = hist.high]
    /\ hist' = [hist EXCEPT !.begun = @ + 1]
    /\ UNCHANGED <<stats, mutex, statsSnap>>
    /\ ConcFrame

\* let current_bytes = self.bytes.load()
SnapLoadBytes(t) ==
    /\ thr[t].pc = "sn_bytes"
    /\ thr' = [thr EXCEPT ![t].pc = "sn_dropped", ![t].cur_bytes = stats.bytes]
    /\ UNCHANGED <<stats, mutex, statsSnap, hist>>
    /\ ConcFrame

\* let dropped = self.dropped.load()
SnapLoadDropped(t) ==
    /\ thr[t].pc = "sn_dropped"
    /\ thr' = [thr EXCEPT ![t].pc = "sn_lock", ![t].cur_dropped = stats.dropped]
    /\ UNCHANGED <<stats, mutex, statsSnap, hist>>
    /\ ConcFrame

\* self.last_snapshot_time.lock() succeeds; elapsed is compared with 100 ms.
SnapLock(t, late) ==
    /\ thr[t].pc = "sn_lock"
    /\ mutex = NoThread
    /\ mutex' = t
    /\ thr' = [thr EXCEPT ![t].pc = IF late THEN "sn_swap_frames" ELSE "sn_return",
                          ![t].late = late]
    /\ UNCHANGED <<stats, statsSnap, hist>>
    /\ ConcFrame

\* let last_frames = self.last_frames.swap(current_frames), and frame_delta
SnapSwapFrames(t) ==
    /\ thr[t].pc = "sn_swap_frames"
    /\ stats' = [stats EXCEPT !.last_frames = thr[t].cur_frames]
    /\ thr' = [thr EXCEPT ![t].pc = "sn_swap_bytes",
                          ![t].frame_delta = SaturatingSub(thr[t].cur_frames, stats.last_frames)]
    /\ hist' = [hist EXCEPT !.saturated = @ \/ thr[t].cur_frames < stats.last_frames]
    /\ UNCHANGED <<mutex, statsSnap>>
    /\ ConcFrame

\* let last_bytes = self.last_bytes.swap(current_bytes), and byte_delta
SnapSwapBytes(t) ==
    /\ thr[t].pc = "sn_swap_bytes"
    /\ stats' = [stats EXCEPT !.last_bytes = thr[t].cur_bytes]
    /\ thr' = [thr EXCEPT ![t].pc = "sn_return",
                          ![t].byte_delta = SaturatingSub(thr[t].cur_bytes, stats.last_bytes)]
    /\ hist' = [hist EXCEPT !.saturated = @ \/ thr[t].cur_bytes < stats.last_bytes]
    /\ UNCHANGED <<mutex, statsSnap>>
    /\ ConcFrame

\* The StatsSnapshot is built and returned; the lock guard is dropped.
SnapReturn(t) ==
    /\ thr[t].pc = "sn_return"
    /\ statsSnap' = [total_frames   |-> thr[t].cur_frames,
                     total_bytes    |-> thr[t].cur_bytes,
                     dropped_frames |-> thr[t].cur_dropped,
                     frame_delta    |-> thr[t].frame_delta,
                     byte_delta     |-> thr[t].byte_delta,
                     taken          |-> TRUE]
    /\ mutex' = NoThread
    /\ thr' = [thr EXCEPT ![t] = IdleThread]
    /\ hist' = [hist EXCEPT !.high = <<Larger(@[1], thr[t].cur_frames),
                                    Larger(@[2], thr[t].cur_bytes),
                                    Larger(@[3], thr[t].cur_dropped)>>]
    /\ UNCHANGED stats
    /\ ConcFrame

\* reset: five stores, one after the other, without the lock.
ResetStore(t) ==
    /\ \/ Begins(t) /\ hist' = [hist EXCEPT !.begun = @ + 1, !.reset_called = TRUE]
       \/ thr[t].pc \in {"rs_bytes", "rs_dropped", "rs_last_frames", "rs_last_bytes"}
            /\ UNCHANGED hist
    /\ LET pc == thr[t].pc IN
         /\ stats' = CASE pc = "idle"           -> [stats EXCEPT !.frames = 0]
                        [] pc = "rs_bytes"       -> [stats EXCEPT !.bytes = 0]
                        [] pc = "rs_dropped"     -> [stats EXCEPT !.dropped = 0]
                        [] pc = "rs_last_frames" -> [stats EXCEPT !.last_frames = 0]
                        [] pc = "rs_last_bytes"  -> [stats EXCEPT !.last_bytes = 0]
         /\ thr' = [thr EXCEPT ![t].pc =
                        CASE pc = "idle"           -> "rs_bytes"
                          [] pc = "rs_bytes"       -> "rs_dropped"
                          [] pc = "rs_dropped"     -> "rs_last_frames"
                          [] pc = "rs_last_frames" -> "rs_last_bytes"
                          [] pc = "rs_last_bytes"  -> "idle"]
    /\ UNCHANGED <<mutex, statsSnap>>
    /\ ConcFrame

InitConc == CodecIdle /\ NetOneConn /\ PresenterStart /\ LibIdle /\ budget = 0

NextConc ==
    \E t \in StatsThreads :
        \/ \E b \in ConcBytes : RecordFrameFrames(t, b)
        \/ RecordFrameBytes(t)
        \/ RecordDrop(t)
        \/ SnapLoadFrames(t)
        \/ SnapLoadBytes(t)
        \/ SnapLoadDropped(t)
        \/ \E late \in BOOLEAN : SnapLock(t, late)
        \/ SnapSwapFrames(t)
        \/ SnapSwapBytes(t)
        \/ SnapReturn(t)
        \/ ResetStore(t)

SpecConc == InitConc /\ [][NextConc]_vars

\* ---- generate_color_bars of shared/src/test_pattern.rs ----
MaxBarsWidth == 17
MaxBarsHeight == 2

\* let bars = [..]: white, yellow, cyan, green, magenta, red, blue, black.
BarColours ==
    << <<255, 255, 255, 255>>, <<255, 255, 0, 255>>, <<0, 255, 255, 255>>,
       <<0, 255, 0, 255>>, <<255, 0, 255, 255>>, <<255, 0, 0, 255>>,
       <<0, 0, 255, 255>>, <<0, 0, 0, 255>> >>

RECURSIVE BarsRow(_, _, _)
\* The inner loop for x in from .. w - 1: the four bytes of each pixel.
BarsRow(from, w, bar_width) ==
    IF from >= w THEN <<>>
    ELSE BarColours[Min(from \div bar_width, 7) + 1] \o BarsRow(from + 1, w, bar_width)

RECURSIVE BarsRows(_, _)
\* The outer loop: the same row, height times.
BarsRows(row, h) ==
    IF h = 0 THEN <<>> ELSE row \o BarsRows(row, h - 1)

\* generate_color_bars(width, height).  bar_width = width / 8 is zero for a
\* width below 8, and the first x / bar_width then panics (division by zero).
generate_color_bars(w, h) ==
    LET bar_width == w \div 8 IN
        IF w > 0 /\ h > 0 /\ bar_width = 0
        THEN [kind |-> "panic", data |-> <<>>]
        ELSE [kind |-> "ok",
              data |-> IF w = 0 \/ h = 0 THEN <<>>
                       ELSE BarsRows(BarsRow(0, w, bar_width), h)]

GenerateBars ==
    /\ barsOut = NoBars
    /\ barsOut' = generate_color_bars(barsArgs[1], barsArgs[2])
    /\ UNCHANGED <<shellVars, concVars, picGeom, picVisit, barsArgs, yuv, rgbPixel, stats, statsCalls, statsSnap,
                   codecVars, netVars, presVars>>

InitBars ==
    /\ CodecIdle /\ NetOneConn /\ PresenterStart /\ budget = 0
    /\ yuv = <<0, 0, 0>>
    /\ rgbPixel = NoPixel
    /\ stats = NewStats
    /\ statsCalls = <<>>
    /\ statsSnap = NoSnapshot
    /\ barsArgs \in (0..MaxBarsWidth) \X (0..MaxBarsHeight)
    /\ barsOut = NoBars
    /\ picGeom = NoGeom
    /\ picVisit = <<>>
    /\ ThreadsIdle
    /\ ShellIdle

NextBars == GenerateBars

SpecBars == InitBars /\ [][NextBars]_vars

\* ---- the UI shell: its buttons, the receiver processes, their readers ----

\* What a step of the shell leaves unchanged.
ShellFrame == UNCHANGED <<concVars, yuv, rgbPixel, stats, statsCalls, statsSnap, barsArgs,
                          barsOut, picGeom, picVisit, codecVars, netVars, presVars>>

\* The UI thread is between two window messages.
UiIdle == uiPc = "idle" /\ ~destroyed

\* The ids not given to a process yet.
Unborn == {i \in Children : procs[i] = "unborn"}

\* The id the next process gets.
FirstUnborn == CHOOSE i \in Unborn : \A j \in Unborn : i <= j

\* stop_child: take() the child if there is one, kill() it and wait() for it.
StopChild(ps) ==
    IF child = NoChild THEN ps ELSE [ps EXCEPT ![child] = "reaped"]

\* spawn_receiver_child returns Ok(child): process i runs and the thread
\* reading its stdout is started.
Spawned(ps, i) == [ps EXCEPT ![i] = "running"]

\* ID_BTN_START: nothing when a child is held; else spawn_receiver_child,
\* which fails (Err) or gives a child.
ClickStart ==
    /\ UiIdle
    /\ IF child # NoChild
       THEN /\ shellHist' = [shellHist EXCEPT !.start_clicked = TRUE, !.spawn_called = FALSE]
            /\ UNCHANGED <<child, procs, readers, process_status, uiPc>>
       ELSE /\ shellHist' = [shellHist EXCEPT !.start_clicked = TRUE, !.spawn_called = TRUE]
            /\ \/ \E i \in Unborn :
                    /\ i = FirstUnborn
                    /\ child' = i
                    /\ procs' = Spawned(procs, i)
                    /\ readers' = [readers EXCEPT ![i] = "reading"]
                    /\ uiPc' = "start_running"
                    /\ UNCHANGED process_status
               \/ /\ process_status' = "Error"
                  /\ UNCHANGED <<child, procs, readers, uiPc>>
    /\ UNCHANGED <<fullscreen, destroyed>>
    /\ ShellFrame

\* ID_BTN_START, after Ok(child): m.process_status = "Running"
StartSetRunning ==
    /\ uiPc = "start_running"
    /\ process_status' = "Running"
    /\ uiPc' = "idle"
    /\ UNCHANGED <<child, procs, readers, fullscreen, destroyed, shellHist>>
    /\ ShellFrame

\* ID_BTN_STOP: stop_child(state)
ClickStop ==
    /\ UiIdle
    /\ procs' = StopChild(procs)
    /\ child' = NoChild
    /\ uiPc' = "stop_status"
    /\ shellHist' = [shellHist EXCEPT !.start_clicked = FALSE]
    /\ UNCHANGED <<readers, process_status, fullscreen, destroyed>>
    /\ ShellFrame

\* ID_BTN_STOP: m.process_status = "Stopped"
StopSetStatus ==
    /\ uiPc = "stop_status"
    /\ process_status' = "Stopped"
    /\ uiPc' = "idle"
    /\ UNCHANGED <<child, procs, readers, fullscreen, destroyed, shellHist>>
    /\ ShellFrame

\* ID_BTN_FULLSCREEN: toggle m.fullscreen; if a child is held, stop_child.
ClickFullscreen ==
    /\ UiIdle
    /\ fullscreen' = ~fullscreen
    /\ procs' = StopChild(procs)
    /\ child' = NoChild
    /\ uiPc' = IF child # NoChild THEN "fs_restarting" ELSE "idle"
    /\ shellHist' = [shellHist EXCEPT !.start_clicked = FALSE]
    /\ UNCHANGED <<readers, process_status, destroyed>>
    /\ ShellFrame

\* ID_BTN_FULLSCREEN: m.process_status = "Restarting..."
FsSetRestarting ==
    /\ uiPc = "fs_restarting"
    /\ process_status' = "Restarting..."
    /\ uiPc' = "fs_spawn"
    /\ UNCHANGED <<child, procs, readers, fullscreen, destroyed, shellHist>>
    /\ ShellFrame

\* ID_BTN_FULLSCREEN: spawn_receiver_child gives a child, or fails.
FsSpawn ==
    /\ uiPc = "fs_spawn"
    /\ \/ \E i \in Unborn :
            /\ i = FirstUnborn
            /\ child' = i
            /\ procs' = Spawned(procs, i)
            /\ readers' = [readers EXCEPT ![i] = "reading"]
            /\ uiPc' = "fs_running"
            /\ UNCHANGED process_status
       \/ /\ process_status' = "Error"
          /\ uiPc' = "idle"
          /\ UNCHANGED <<child, procs, readers>>
    /\ UNCHANGED <<fullscreen, destroyed, shellHist>>
    /\ ShellFrame

\* ID_BTN_FULLSCREEN, after Ok(child): m.process_status = "Running"
FsSetRunning ==
    /\ uiPc = "fs_running"
    /\ process_status' = "Running"
    /\ uiPc' = "idle"
    /\ shellHist' = [shellHist EXCEPT !.restarted = child]
    /\ UNCHANGED <<child, procs, readers, fullscreen, destroyed>>
    /\ ShellFrame

\* WM_DESTROY: stop_child(state)
Destroy ==
    /\ UiIdle
    /\ procs' = StopChild(procs)
    /\ child' = NoChild
    /\ destroyed' = TRUE
    /\ UNCHANGED <<readers, process_status, fullscreen, uiPc, shellHist>>
    /\ ShellFrame

\* The receiver process ends by itself.
ChildExits(i) ==
    /\ procs[i] = "running"
    /\ procs' = [procs EXCEPT ![i] = "exited"]
    /\ UNCHANGED <<child, readers, process_status, fullscreen, uiPc, destroyed, shellHist>>
    /\ ShellFrame

\* The stdout reader thread of child i finds the pipe closed, leaves its
\* loop and sets the status to "Stopped" unless it is that already.
ReaderEof(i) ==
    /\ readers[i] = "reading"
    /\ procs[i] \in {"exited", "reaped"}
    /\ readers' = [readers EXCEPT ![i] = "done"]
    /\ process_status' = "Stopped"
    /\ UNCHANGED <<child, procs, fullscreen, uiPc, destroyed, shellHist>>
    /\ ShellFrame

InitShell == CodecIdle /\ NetOneConn /\ PresenterStart /\ LibIdle /\ budget = 0

NextShell ==
    \/ ClickStart
    \/ StartSetRunning
    \/ ClickStop
    \/ StopSetStatus
    \/ ClickFullscreen
    \/ FsSetRestarting
    \/ FsSpawn
    \/ FsSetRunning
    \/ Destroy
    \/ \E i \in Children : ChildExits(i)
    \/ \E i \in Children : ReaderEof(i)

SpecShell == InitShell /\ [][NextShell]_vars

\* ---- the conversion loop's indices, for pictures of every small size ----
MaxPicDim == 4

\* ceil(n / 2): the chroma planes hold one sample per 2 x 2 block.
HalfUp(n) == (n + 1) \div 2

\* Dimensions and strides of the pictures the decoder may hand over, each
\* stride the plane's width or one more, and the framebuffer's sizes before
\* the picture arrives.
PicGeometries ==
    {[w |-> w, h |-> h, y_stride |-> w + py, u_stride |-> HalfUp(w) + pu,
      v_stride |-> HalfUp(w) + pv, buffer_len |-> 0] :
        w \in 1..MaxPicDim, h \in 1..MaxPicDim,
        py \in 0..1, pu \in 0..1, pv \in 0..1}

PriorSizes == {<<1, 1>>, <<INIT_WIDTH, INIT_HEIGHT>>, <<MaxPicDim, MaxPicDim>>}

\* The H264 arm on a picture of geometry g, the framebuffer being pw x ph:
\* resize_window_and_buffers(dec_width, dec_height), then the two loops;
\* for each (row, col) the indices computed and whether the pixel is written.
IndexPicture(g, pw, ph) ==
    /\ picGeom = NoGeom
    /\ LET r == resize_window_and_buffers(pw, ph, Zeros(pw * ph), g.w, g.h) IN
         /\ picGeom' = [g EXCEPT !.buffer_len = Len(r.buffer)]
         /\ picVisit' =
              [rc \in (0..(g.h - 1)) \X (0..(g.w - 1)) |->
                 [y_idx |-> LumaIndex(rc[1], rc[2], g.y_stride),
                  u_idx |-> ChromaIndex(rc[1], rc[2], g.u_stride),
                  v_idx |-> ChromaIndex(rc[1], rc[2], g.v_stride),
                  pixel_idx |-> rc[1] * g.w + rc[2],
                  written |-> rc[1] * g.w + rc[2] < Len(r.buffer)]]
    /\ UNCHANGED <<shellVars, concVars, yuv, rgbPixel, stats, statsCalls, statsSnap, barsArgs, barsOut,
                   codecVars, netVars, presVars>>

InitGeometry == CodecIdle /\ NetOneConn /\ PresenterStart /\ LibIdle /\ budget = 0

NextGeometry == \E g \in PicGeometries, s \in PriorSizes : IndexPicture(g, s[1], s[2])

SpecGeometry == InitGeometry /\ [][NextGeometry]_vars

\* ---- the unidirectional acceptor on its own ----
InitUni == CodecIdle /\ NetOneConn /\ PresenterStart /\ LibIdle /\ budget = MaxUniStreams

NextUni ==
    \/ \E data \in UniMsgs : UniAccept(1, data)
    \/ UniReadErr(1)
    \/ UniSendOk(1)
    \/ UniSendClosed(1)
    \/ ConnClose(1)
    \/ UniAcceptErr(1)
    \/ PresenterRecv
    \/ PresenterExit

SpecUni == InitUni /\ [][NextUni]_vars

\* ---- the presenter: frames of every type, every decoder answer ----
InitPresenter == CodecIdle /\ NetOneConn /\ PresenterStart /\ LibIdle /\ budget = MaxPresFrames

NextPresenter ==
    \/ \E f \in PresFrames : Enqueue(f)
    \/ \E d \in DecodeResults \cup {NotDecoded} : DrainFrame(d)
    \/ DrainEmpty
    \/ Present
    \/ PresentErr
    \/ StatsEmit
    \/ StatsSkip
    \/ LoopContinue
    \/ LoopExit
    \/ Tick
    \/ StopAtCheck

SpecPresenter == InitPresenter /\ [][NextPresenter]_vars

\* ---- the presenter and the stop signal, given at any point of the loop ----
MaxStopFrames == 2
StopFrames == {PRaw22, PCtl}

InitStop == CodecIdle /\ NetOneConn /\ PresenterStart /\ LibIdle /\ budget = MaxStopFrames

\* A step of main's loop.
PresenterStep ==
    \/ \E d \in DecodeResults \cup {NotDecoded} : DrainFrame(d)
    \/ DrainEmpty
    \/ Present
    \/ PresentErr
    \/ StatsEmit
    \/ StatsSkip
    \/ LoopContinue
    \/ LoopExit

NextStop ==
    \/ \E f \in StopFrames : Enqueue(f)
    \/ PresenterStep
    \/ Tick
    \/ StopSignal

\* main's thread keeps running: none of its calls blocks.
FairStop == WF_vars(PresenterStep)

SpecStop == InitStop /\ [][NextStop]_vars /\ FairStop

-----------------------------------------------------------------------------
(* What the wire format promises (spec section 3), stated from the sender's  *)
(* side and independently of the parsers above                              *)

\* The tags of section 3: 0 = Raw, 1 = H264, 2 = Control, 3 = Stats.
TypeName(t) == CASE t = 0 -> "Raw" [] t = 1 -> "H264" [] t = 2 -> "Control"
                 [] t = 3 -> "Stats" [] OTHER -> "invalid"

WellFormed(f) ==
    /\ f.version = 1
    /\ f.tag \in 0..3
    /\ f.payload_size <= MAX_FRAME_PAYLOAD_SIZE
    /\ f.payload_size = Len(f.payload)

Oversize(f) == f.payload_size > MAX_FRAME_PAYLOAD_SIZE

\* The FrameData the receiver should hand to the channel for sender frame f.
ExpectedFrame(f) ==
    [width |-> f.width, height |-> f.height, rgba_data |-> f.payload,
     sequence |-> f.sequence, frame_type |-> TypeName(f.tag)]

ExpectedFrames(fs) == [i \in 1..Len(fs) |-> ExpectedFrame(fs[i])]

IsPrefix(a, b) == Len(a) <= Len(b) /\ \A i \in 1..Len(a) : a[i] = b[i]

\* Everything that went through the channel, oldest first.
Queued == seen \o chan

\* The handler of connection c's stream has returned, the sender wrote the
\* whole stream, and the presenter still holds rx.
StreamDelivered(c) ==
    /\ sentBi[c] # <<>>
    /\ biPc[c] = "accept"
    /\ ~cut[c]
    /\ rxOpen

-----------------------------------------------------------------------------
(* C1: a stream of well-formed frames F1..Fn, cut into chunks of any size   *)
(* (single bytes included), makes handle_frame_byte_stream enqueue exactly  *)
(* F1..Fn in order, each with the sender's width, height, sequence,         *)
(* frame_type and payload, and nothing else.                                *)
C1_StreamReassembly ==
    (\A i \in DOMAIN sentBi[1] : WellFormed(sentBi[1][i])) =>
        /\ IsPrefix(emitBi[1], ExpectedFrames(sentBi[1]))
        /\ (rxOpen => Queued = emitBi[1])
        /\ (StreamDelivered(1) =>
              /\ biRes[1] = "ok"
              /\ emitBi[1] = ExpectedFrames(sentBi[1]))

C1_Witness ==
    /\ StreamDelivered(1)
    /\ sentBi[1] = <<FRaw, FH264>>
    /\ seen = <<ExpectedFrame(FRaw), ExpectedFrame(FH264)>>

(* C2: for a header h with version 1, encode appends exactly 26 bytes and   *)
(* decode of those bytes returns a header equal to h in every field.        *)
C2_RoundTrip ==
    /\ (cpc \in {"encoded", "decoded"} =>
          /\ Len(cbuf) = Len(cpre) + 26
          /\ SubSeq(cbuf, 1, Len(cpre)) = cpre)
    /\ (cpc = "decoded" /\ chdr.version = 1 =>
          /\ cdec.ok
          /\ cdec.header = chdr)

C2_Witness ==
    /\ cpc = "decoded"
    /\ chdr.version = 1
    /\ chdr.frame_type = "Stats"
    /\ chdr.sequence = 16909060
    /\ cpre # <<>>
    /\ cdec.ok
    /\ cdec.header = chdr

(* C3: decode returns a Protocol error and no header when fewer than 26     *)
(* bytes remain, when the version byte is not 1, or when the frame_type     *)
(* byte is not 0..3; try_from accepts exactly the tags 0..3.                *)
C3_DecodeRejects ==
    /\ (/\ cpc \in {"decoded", "decoded_damaged"}
        /\ \/ Len(Appended) < 26
           \/ Appended[1] # 1
           \/ Appended[2] \notin 0..3)
       => /\ ~cdec.ok
          /\ cdec.err = "Protocol"
          /\ cdec.header = NoHeader
    /\ (ctagRes # NoTag =>
          /\ ctagRes.ok <=> ctag \in 0..3
          /\ ~ctagRes.ok => ctagRes.err = "Protocol")

C3_Witness ==
    /\ cpc = "decoded_damaged"
    /\ Len(Appended) = 26
    /\ Appended[1] = 1
    /\ Appended[2] = 255
    /\ ~cdec.ok
    /\ ctagRes # NoTag
    /\ ~ctagRes.ok

(* C4: on no delivery path (byte stream, one-shot stream, datagram) is a    *)
(* frame enqueued whose header has a version other than 1 or a frame_type   *)
(* outside 0..3.  (The pool's frames have distinct sequence numbers, so a   *)
(* FrameData is traced to its sender frame by its sequence.)                *)
C4_NoInvalidFrameEnqueued ==
    \A i \in DOMAIN Queued :
        Queued[i].sequence \notin {FBadVer.sequence, FBadType.sequence}


\* The payload_size field of the header at the front of connection c's buf.
PeekedSize(c) == GetBE(SubSeq(biBuf[c], 23, 26))
PeekedVersion(c) == biBuf[c][1]
PeekedTag(c) == biBuf[c][2]

\* Frames an acceptor of connection c holds in a pending tx.send.
Pending(c) ==
    (IF biPc[c] = "send" THEN {biFrame[c]} ELSE {})
      \cup (IF uniPc[c] = "send" THEN {uniFrame[c]} ELSE {})
      \cup (IF dgPc[c] = "send" THEN {dgFrame[c]} ELSE {})

(* C5: on every delivery path a header whose payload_size exceeds the       *)
(* ceiling is a protocol error: its frame is never enqueued, and on a byte  *)
(* stream the handler stops with an error without emitting that frame or    *)
(* any later frame of the stream; a payload_size equal to the ceiling is    *)
(* accepted on every path.                                                  *)
C5_NeverEnqueued ==
    /\ \A i \in DOMAIN Queued : Queued[i].sequence # FOver.sequence
    /\ \A f \in Pending(1) : f.sequence # FOver.sequence
    /\ \A k \in DOMAIN sentBi[1] : Oversize(sentBi[1][k]) => Len(emitBi[1]) < k

C5_StreamStep ==
    BiPeek(1) =>
        /\ PeekedSize(1) > MAX_FRAME_PAYLOAD_SIZE =>
              /\ biRes'[1] = "err"
              /\ biPc'[1] = "accept"
              /\ chan' = chan
        /\ (PeekedVersion(1) = 1 /\ PeekedSize(1) = MAX_FRAME_PAYLOAD_SIZE) =>
              /\ biPc'[1] = "payload"
              /\ biNeed'[1] = FRAME_HEADER_SIZE + MAX_FRAME_PAYLOAD_SIZE

C5_MessageStep ==
    /\ DgRecv(1, WireFrame(FRaw)) =>
          dgPc'[1] = "send" /\ dgFrame'[1] = ExpectedFrame(FRaw)
    /\ UniAccept(1, WireFrame(FRaw)) =>
          uniPc'[1] = "send" /\ uniFrame'[1] = ExpectedFrame(FRaw)
    /\ (DgRecv(1, WireFrame(FOver)) \/ DgRecv(1, OverHeader)) =>
          dgPc'[1] = "accept" /\ chan' = chan
    /\ (UniAccept(1, WireFrame(FOver)) \/ UniAccept(1, OverHeader)) =>
          uniPc'[1] = "accept" /\ chan' = chan

RECURSIVE KnownTypeFrames(_)
KnownTypeFrames(fs) ==
    IF fs = <<>> THEN <<>>
    ELSE (IF Head(fs).tag \in 0..3 THEN <<Head(fs)>> ELSE <<>>)
           \o KnownTypeFrames(Tail(fs))

\* f is well-formed but for its frame_type byte.
WellFormedButType(f) == WellFormed([f EXCEPT !.tag = 0])

BiFails(c) == (BiReadErr(c) \/ BiPeek(c)) /\ biRes'[c] = "err" /\ biPc'[c] # "payload"

\* A step in which the one-shot stream or the datagram c received is refused.
MessageRefused(c) ==
    \E data \in MsgPool :
        \/ UniAccept(c, data) /\ uniPc'[c] # "send"
        \/ DgRecv(c, data) /\ dgPc'[c] = "accept"

(* C7: a protocol or read error on one stream does not tear down the        *)
(* connection: when handle_frame_byte_stream fails, bi_task goes back to    *)
(* accept the next stream, and the connection, the other two acceptors,     *)
(* their pending frames and the channel are untouched; a refused one-shot   *)
(* stream or datagram likewise leaves its acceptor accepting.  An acceptor  *)
(* ends only when the connection is closed.                                 *)
C7_StreamErrorStep ==
    /\ BiFails(1) =>
          /\ biPc'[1] = "accept"
          /\ conn' = conn
          /\ UNCHANGED <<uniVars, dgVars, chanVars>>
    /\ MessageRefused(1) =>
          /\ conn' = conn
          /\ UNCHANGED <<biVars, chanVars>>
          /\ uniPc'[1] = uniPc[1]

C7_AcceptorsEndOnClose ==
    /\ biPc[1] = "done" => conn[1] = "closed"
    /\ uniPc[1] = "done" => conn[1] = "closed"
    /\ dgPc[1] = "done" => conn[1] = "closed"
    /\ conn[1] = "open" => biPc[1] \in {"accept", "hdr", "payload", "send"}

C7_StreamErrorKeepsConnection ==
    /\ [][C7_StreamErrorStep]_vars
    /\ []C7_AcceptorsEndOnClose

\* After a failed stream the next one is being read while the other two
\* acceptors have each parsed a frame.
C7_Witness ==
    /\ conn[1] = "open"
    /\ biRes[1] = "err"
    /\ biPc[1] = "payload"
    /\ sentBi[1] = <<FCtl>>
    /\ Len(Queued) = 1

SendEnds(c) ==
    \/ biPc[c] = "send" /\ biPc'[c] # "send"
    \/ uniPc[c] = "send" /\ uniPc'[c] # "send"
    \/ dgPc[c] = "send" /\ dgPc'[c] # "send"

(* C8 (amended): the enqueue is tx.send(..).await, which suspends while the *)
(* channel is full.  While the channel is full and open no acceptor's       *)
(* enqueue completes and no frame is dropped: every suspended acceptor      *)
(* keeps its frame, and the channel changes only by the presenter taking    *)
(* its oldest frame or closing it.  An enqueue that completes on an open    *)
(* channel appends its frame; the queue never exceeds its capacity.         *)
C8_FullStep ==
    /\ (Len(chan) = CHANNEL_CAPACITY /\ rxOpen) =>
          /\ ~SendEnds(1)
          /\ biPc[1] = "send" => biFrame'[1] = biFrame[1]
          /\ uniPc[1] = "send" => uniFrame'[1] = uniFrame[1]
          /\ dgPc[1] = "send" => dgFrame'[1] = dgFrame[1]
          /\ \/ chan' = chan
             \/ chan' = Tail(chan) /\ seen' = Append(seen, Head(chan))
             \/ ~rxOpen'
    /\ (rxOpen /\ biPc[1] = "send" /\ biPc'[1] # "send") => chan' = Append(chan, biFrame[1])
    /\ (rxOpen /\ uniPc[1] = "send" /\ uniPc'[1] # "send") => chan' = Append(chan, uniFrame[1])
    /\ (rxOpen /\ dgPc[1] = "send" /\ dgPc'[1] # "send") => chan' = Append(chan, dgFrame[1])

C9_ClosedStep ==
    /\ ~rxOpen => (~rxOpen' /\ chan' = <<>> /\ seen' = seen)
    /\ (~rxOpen /\ biPc[1] = "send") => biPc'[1] \in {"send", "accept"}
    /\ BiSendClosed(1) => (biPc'[1] = "accept" /\ biRes'[1] = "ok")
    /\ UniSendClosed(1) => uniPc'[1] = "accept"
    /\ DgSendClosed(1) => dgPc'[1] = "accept"

Serving(c) ==
    \/ biPc[c] \in {"accept", "hdr", "payload", "send"}
    \/ uniPc[c] \in {"accept", "send"}
    \/ dgPc[c] \in {"accept", "send"}

C11_ChannelIsFifo ==
    /\ IsPrefix(seen, emitBi[1])
    /\ Len(seen) + Len(chan) <= Len(emitBi[1])
    /\ rxOpen => \A i \in DOMAIN chan : chan[i] = emitBi[1][Len(seen) + i]
    /\ (\A i \in DOMAIN sentBi[1] : WellFormed(sentBi[1][i])) =>
          IsPrefix(seen, ExpectedFrames(sentBi[1]))

\* The presenter has taken the first frame of a stream while the second is
\* still queued behind it.
C11_Witness ==
    /\ sentBi[1] = <<FH264, FRaw>>
    /\ seen = <<ExpectedFrame(FH264)>>
    /\ chan = <<ExpectedFrame(FRaw)>>
    /\ rxOpen

-----------------------------------------------------------------------------
(* The presenter's claims                                                   *)

\* The frame the presenter is about to take.
NextFrame == Head(chan)

\* The header of f asks for a resize of the current framebuffer.
HeaderResizes(f) ==
    /\ f.width # 0
    /\ f.height # 0
    /\ (f.width # width \/ f.height # height)

\* b is a, cut or extended with zeros to length n, and otherwise untouched.
ResizedFrom(b, a, n) ==
    /\ Len(b) = n
    /\ \A i \in 1..n : b[i] = IF i <= Len(a) THEN a[i] ELSE 0

(* C12: between presenter steps, after any frames of any type, with any     *)
(* header dimensions and any decoder answers, the framebuffer's length is   *)
(* width * height; so it is at every update_with_buffer call.               *)
C12_BufferMatchesDims ==
    /\ Len(buffer) = width * height
    /\ shown # NoShow => Len(shown.buffer) = shown.width * shown.height

C12_Witness ==
    /\ seen = <<PCtlDims, PH264Small>>
    /\ decLog = <<"pic">>
    /\ shown # NoShow
    /\ shown.width = 1
    /\ shown.height = 3
    /\ Len(shown.buffer) = 3

(* C13: a Raw frame writes exactly the first min(framebuffer length,        *)
(* payload length / 4) pixels of the framebuffer (as it is after the resize *)
(* to the header's dimensions): pixel i is (R << 16) | (G << 8) | B of      *)
(* bytes 4i, 4i+1, 4i+2, the alpha byte is ignored, the other pixels keep   *)
(* their values, and raw_frames grows by one.  The 2 x 2 red, green, blue,  *)
(* white frame leaves [0x00FF0000, 0x0000FF00, 0x000000FF, 0x00FFFFFF].     *)
C13_RawStep ==
    (DrainFrame(NotDecoded) /\ NextFrame.frame_type = "Raw") =>
        LET data == NextFrame.rgba_data
            n    == Min(Len(buffer'), Len(data) \div 4)
        IN  /\ Len(buffer') = IF HeaderResizes(NextFrame)
                              THEN NextFrame.width * NextFrame.height
                              ELSE Len(buffer)
            /\ \A i \in 1..n :
                  buffer'[i] = data[4 * i - 3] * 65536 + data[4 * i - 2] * 256
                                 + data[4 * i - 1]
            /\ \A i \in (n + 1)..Len(buffer') :
                  buffer'[i] = IF i <= Len(buffer) THEN buffer[i] ELSE 0
            /\ raw_frames' = raw_frames + 1
            /\ h264_frames' = h264_frames
            /\ NextFrame = PRaw22 => buffer' = <<16711680, 65280, 255, 16777215>>

C13_RawFrame == [][C13_RawStep]_vars

\* A short raw frame was copied over the red, green, blue, white one.
C13_Witness ==
    /\ seen = <<PRaw22, PRawShort>>
    /\ buffer = <<66051, 65280, 255, 16777215>>
    /\ raw_frames = 2

(* C14 as the spec states it: a Control or Stats frame leaves the           *)
(* framebuffer's contents, its length, and the width and height as they     *)
(* were, whatever its width and height fields.                              *)
C14_OtherFramesLeaveBuffer ==
    [][(DrainFrame(NotDecoded) /\ NextFrame.frame_type \in {"Control", "Stats"})
          => UNCHANGED fbVars]_vars

(* C14 (amended): a Control or Stats frame changes the framebuffer only     *)
(* through the resize that precedes the dispatch: when its width and height *)
(* fields are both non-zero and differ from the current ones, they become   *)
(* the current ones and the buffer is cut or zero-extended to their         *)
(* product; otherwise nothing changes.  No pixel is written and neither     *)
(* h264_frames nor raw_frames moves.                                        *)
C14_OtherStep ==
    (DrainFrame(NotDecoded) /\ NextFrame.frame_type \in {"Control", "Stats"}) =>
        /\ IF HeaderResizes(NextFrame)
           THEN /\ width' = NextFrame.width
                /\ height' = NextFrame.height
                /\ ResizedFrom(buffer', buffer, NextFrame.width * NextFrame.height)
           ELSE UNCHANGED fbVars
        /\ UNCHANGED <<h264_frames, raw_frames>>

C14_OtherFramesOnlyResize == [][C14_OtherStep]_vars

\* A 1 x 1 Control frame has cut the red, green, blue, white picture to its
\* first pixel.
C14_Witness ==
    /\ seen = <<PRaw22, PCtlDims>>
    /\ width = 1
    /\ height = 1
    /\ buffer = <<16711680>>

\* Pictures among the decoder's answers so far.
PicturesDecoded == Cardinality({i \in DOMAIN decLog : decLog[i] = "pic"})

\* The decoder's answers that carry no picture: Ok(None) and Err.
NoPictureResults == {d \in DecodeResults : d.kind \in {"none", "err"}}

\* No stats line has reset the counters since the first frame was drained.
CountersNotReset == frame_count = Len(seen)

(* C15: an H.264 frame for which the decoder answers None or an error       *)
(* writes no pixel (the framebuffer changes at most by the resize to the    *)
(* header's dimensions, and not at all when these are the current ones) and *)
(* is not counted in h264_frames; the presenter goes on draining with the   *)
(* same decoder, and the next frame for which the decoder returns a picture *)
(* is converted into the framebuffer and counted.  After one None and one   *)
(* picture h264_frames is 1.                                                *)
C15_NoPictureStep ==
    \A d \in NoPictureResults :
        DrainFrame(d) =>
            /\ IF HeaderResizes(NextFrame)
               THEN /\ width' = NextFrame.width
                    /\ height' = NextFrame.height
                    /\ ResizedFrom(buffer', buffer, NextFrame.width * NextFrame.height)
               ELSE UNCHANGED fbVars
            /\ UNCHANGED <<h264_frames, raw_frames>>
            /\ decLog' = Append(decLog, d.kind)
            /\ ppc' = "drain"
            /\ rxOpen'

C15_PictureStep ==
    \A p \in PicPool :
        DrainFrame([kind |-> "pic", pic |-> p]) =>
            /\ h264_frames' = h264_frames + 1
            /\ Len(buffer') = p.w * p.h
            /\ buffer'[1] = PicturePixel(p, 0, 0)
            /\ decLog' = Append(decLog, "pic")

C15_Counted ==
    /\ CountersNotReset => h264_frames = PicturesDecoded
    /\ h264_frames <= PicturesDecoded
    /\ (ppc = "drain" /\ rxOpen /\ chan # <<>> /\ NextFrame.frame_type = "H264")
          => \A d \in DecodeResults : ENABLED DrainFrame(d)

WidthAfterHeader(f) == IF HeaderResizes(f) THEN f.width ELSE width
HeightAfterHeader(f) == IF HeaderResizes(f) THEN f.height ELSE height

(* C16: when the decoder returns a picture whose non-zero dimensions (w, h) *)
(* differ from the current ones (also when they differ from the header's),  *)
(* the framebuffer is resized to w * h before a pixel is written, pixel     *)
(* (row, col) of the picture lands at index row * w + col, and the next     *)
(* update_with_buffer is given width w and height h.                        *)
C16_PictureStep ==
    \A p \in PicPool :
        (/\ DrainFrame([kind |-> "pic", pic |-> p])
         /\ p.w # 0
         /\ p.h # 0
         /\ (p.w # WidthAfterHeader(NextFrame) \/ p.h # HeightAfterHeader(NextFrame)))
        => /\ width' = p.w
           /\ height' = p.h
           /\ Len(buffer') = p.w * p.h
           /\ \A row \in 0..(p.h - 1) : \A col \in 0..(p.w - 1) :
                 buffer'[row * p.w + col + 1] = PicturePixel(p, row, col)

C16_PresentStep ==
    Present => shown' = [buffer |-> buffer, width |-> width, height |-> height]

C16_DecoderDimsWin == [][C16_PictureStep /\ C16_PresentStep]_vars

\* A 1 x 2 header, a 1 x 3 picture: the picture is what is shown.
C16_Witness ==
    /\ seen = <<PH264Small>>
    /\ decLog = <<"pic">>
    /\ shown = [buffer |-> <<PicturePixel(Pic13, 0, 0), PicturePixel(Pic13, 1, 0),
                             PicturePixel(Pic13, 2, 0)>>,
                width |-> 1, height |-> 3]

-----------------------------------------------------------------------------
\* The payload_size field of a message's header.
AnnouncedSize(data) == GetBE(SubSeq(data, 23, 26))

\* The bytes that follow the header as far as payload_size says.
AnnouncedPayload(data) == SubSeq(data, 27, 26 + AnnouncedSize(data))

(* C17: a frame that is enqueued carries exactly payload_size payload       *)
(* bytes, those that follow its header; the stream reassembler takes        *)
(* exactly 26 + payload_size bytes off its buffer for a frame, so that what *)
(* it has buffered and has still to read always begins at a frame of the    *)
(* sender.                                                                  *)
C17_StreamStep ==
    BiConsume(1) =>
        /\ biBuf'[1] = Drop(biBuf[1], 26 + PeekedSize(1))
        /\ biPc'[1] = "send" => biFrame'[1].rgba_data = AnnouncedPayload(biBuf[1])

C17_MessageStep ==
    \A data \in ParseMsgs :
        /\ (UniAccept(1, data) /\ uniPc'[1] = "send") =>
              uniFrame'[1].rgba_data = AnnouncedPayload(data)
        /\ (DgRecv(1, data) /\ dgPc'[1] = "send") =>
              dgFrame'[1].rgba_data = AnnouncedPayload(data)

C17_AtFrameBoundary ==
    /\ biPc[1] \in {"hdr", "payload"} =>
          \E k \in 0..Len(sentBi[1]) :
              biBuf[1] \o wire[1] = WireStream(Drop(sentBi[1], k))
    /\ \A i \in DOMAIN Queued :
          \E f \in WellFormedPool :
              /\ Queued[i] = ExpectedFrame(f)
              /\ Len(Queued[i].rgba_data) = f.payload_size

C17_PayloadLength ==
    /\ [][C17_StreamStep /\ C17_MessageStep]_vars
    /\ []C17_AtFrameBoundary

\* The second frame of a stream is being sent while the datagram with a byte
\* after its payload has been parsed to a frame without payload.
C17_Witness ==
    /\ sentBi[1] = <<FRaw, FH264>>
    /\ emitBi[1] = <<ExpectedFrame(FRaw)>>
    /\ biPc[1] = "send"
    /\ biFrame[1] = ExpectedFrame(FH264)
    /\ dgPc[1] = "send"
    /\ dgFrame[1] = ExpectedFrame(FCtl)

-----------------------------------------------------------------------------
\* The bytes of the sender's frames that follow the first k.
WireAfter(c, k) == WireStream(Drop(sentBi[c], k))

(* C18: a stream that ends before a whole header is buffered, or after a    *)
(* header and before the whole payload, makes handle_frame_byte_stream      *)
(* return Ok: the frames that arrived whole have all been emitted, what is  *)
(* buffered is a strict beginning of the next frame, and it is dropped      *)
(* without being enqueued.                                                  *)
C18_EofStep ==
    BiEof(1) =>
        /\ biRes'[1] = "ok"
        /\ biPc'[1] = "accept"
        /\ biBuf'[1] = <<>>
        /\ UNCHANGED <<chan, seen, emitBi, conn>>
        /\ (\A i \in DOMAIN sentBi[1] : WellFormed(sentBi[1][i])) =>
              LET k == Len(emitBi[1]) IN
                /\ IsPrefix(emitBi[1], ExpectedFrames(sentBi[1]))
                /\ IsPrefix(biBuf[1], WireAfter(1, k))
                /\ IF k < Len(sentBi[1])
                   THEN Len(biBuf[1]) < Len(WireFrame(sentBi[1][k + 1]))
                   ELSE biBuf[1] = <<>>

C18_EarlyEnd == [][C18_EofStep]_vars

\* The stream ended inside its second frame: the first went through, the
\* handler returned Ok and nothing else was enqueued.
C18_Witness ==
    /\ cut[1]
    /\ sentBi[1] = <<FRaw, FH264>>
    /\ biRes[1] = "ok"
    /\ biPc[1] = "accept"
    /\ rxOpen
    /\ seen = <<ExpectedFrame(FRaw)>>
    /\ chan = <<>>

-----------------------------------------------------------------------------
\* The three acceptor tasks of connection c have ended.
TasksEnded(c) ==
    /\ biPc[c] = "done"
    /\ uniPc[c] = "done"
    /\ dgPc[c] \in {"done", "panicked"}

(* C19: handle_connection returns only when its three acceptor tasks have   *)
(* ended, and once the connection is closed each of them ends, whatever it  *)
(* was doing then (waiting to accept, reading a stream, or enqueuing a      *)
(* frame while the presenter drains the channel), so that                   *)
(* handle_connection returns.                                               *)
C19_JoinedAfterTasks == joined[1] => TasksEnded(1)

-----------------------------------------------------------------------------
\* Connection c is over: its handshake failed, or it was closed.
Ended(c) == conn[c] \in {"failed", "closed"}

\* Connection c goes on as if nothing had happened elsewhere.
Untouched(c) ==
    /\ conn'[c] = conn[c]
    /\ joined'[c] = joined[c]
    /\ biPc'[c] = biPc[c]
    /\ uniPc'[c] = uniPc[c]
    /\ dgPc'[c] = dgPc[c]
    /\ dgFrame'[c] = dgFrame[c]

(* C20: a handshake that fails, or a connection that ends, does not stop    *)
(* the listener.  The step in which a connection ends changes nothing of    *)
(* any other connection, and in every state with an ended connection the    *)
(* next connection attempt can still be accepted, a pending handshake can   *)
(* still complete, and none of an open connection's acceptors has ended.    *)
C20_EndStep ==
    \A c \in Conns :
        (~Ended(c) /\ Ended(c)') => \A d \in Conns \ {c} : Untouched(d)

C20_StillListening ==
    \A c \in Conns : Ended(c) =>
        \A d \in Conns \ {c} :
            /\ (conn[d] = "none" /\ \A e \in Conns : e < d => conn[e] # "none")
                  => ENABLED Accept(d)
            /\ conn[d] = "handshake" => ENABLED HandshakeOk(d)
            /\ conn[d] = "open"
                  => (biPc[d] # "done" /\ uniPc[d] # "done" /\ dgPc[d] # "done")

C20_FailureKeepsListener == [][C20_EndStep]_vars /\ []C20_StillListening

\* The first connection's handshake failed; the second is open and its
\* datagram acceptor has a frame to enqueue.
C20_Witness ==
    /\ conn[1] = "failed"
    /\ conn[2] = "open"
    /\ dgPc[2] = "send"
    /\ dgFrame[2].frame_type = "Stats"
    /\ dgFrame[2].sequence = FStats.sequence

-----------------------------------------------------------------------------
\* The resize to new_width x new_height is one resize_window_and_buffers
\* skips: a dimension is zero, or both are the current ones.
SkippedRequest(new_width, new_height) ==
    \/ new_width = 0
    \/ new_height = 0
    \/ (new_width = width /\ new_height = height)

(* C21: a resize request with a zero width or a zero height, or with the    *)
(* current dimensions, changes nothing: resize_window_and_buffers hands     *)
(* back width, height and the buffer as they were, and a drained frame      *)
(* whose header makes such a request and that causes no later write or      *)
(* decoder resize leaves width, height and the buffer untouched; a Raw      *)
(* frame then keeps width, height and the buffer's length.                  *)
C21_Step ==
    \A d \in DecodeResults \cup {NotDecoded} :
        (DrainFrame(d) /\ SkippedRequest(NextFrame.width, NextFrame.height)) =>
            /\ resize_window_and_buffers(width, height, buffer,
                                         NextFrame.width, NextFrame.height)
                 = [width |-> width, height |-> height, buffer |-> buffer]
            /\ (NextFrame.frame_type # "Raw" /\ d.kind # "pic") => UNCHANGED fbVars
            /\ (NextFrame.frame_type = "Raw" \/ SkippedRequest(d.pic.w, d.pic.h)) =>
                  /\ width' = width
                  /\ height' = height
                  /\ Len(buffer') = Len(buffer)

C21_ZeroResizeSkipped == [][C21_Step]_vars

\* After a 3 x 1 frame, a Control frame of width 0 and height 3 was drained:
\* the framebuffer is still 3 x 1.
C21_Witness ==
    /\ seen = <<PRawWide, PCtlZeroW>>
    /\ width = 3
    /\ height = 1
    /\ Len(buffer) = 3

-----------------------------------------------------------------------------
\* x >> 10 said without division: the q with q * 1024 <= x < (q + 1) * 1024.
FloorShift10(x) == CHOOSE q \in -512..512 : q * 1024 <= x /\ x < (q + 1) * 1024

\* The three components before clamping, as the specification writes them.
UnclampedRgb(y, u, v) ==
    LET Y == FloorShift10((y - 16) * 1192)
        U == u - 128
        V == v - 128
    IN  << Y + FloorShift10(1836 * V),
           Y - FloorShift10(218 * U + 545 * V),
           Y + FloorShift10(2160 * U) >>

\* x limited to [0, 255].
Limited(x) == IF x < 0 THEN 0 ELSE IF x > 255 THEN 255 ELSE x

-----------------------------------------------------------------------------
\* The presenter passes its stats check in this step.
StatsChecked == ppc = "stats" /\ ppc' # "stats"

(* C24: at the stats check of an iteration, a stats line is emitted exactly *)
(* when a second or more has passed since the last one.  The line names     *)
(* H.264 exactly when h264_frames exceeds raw_frames (raw on a tie), and    *)
(* right after it frame_count, total_bytes, h264_frames and raw_frames are  *)
(* zero and the second starts anew.  Nothing else emits, so the frame       *)
(* counts of the lines so far and the frames counted since the last line    *)
(* add up to the frames drained: each line reports the frames drained       *)
(* since the line before it, once.                                          *)
C24_StatsStep ==
    StatsChecked =>
        IF elapsed >= STATS_PERIOD
        THEN /\ title'.state = "stats"
             /\ title'.codec = "H.264" <=> h264_frames > raw_frames
             /\ title'.codec = "raw" <=> h264_frames <= raw_frames
             /\ reported' = reported + frame_count
             /\ frame_count' = 0
             /\ total_bytes' = 0
             /\ h264_frames' = 0
             /\ raw_frames' = 0
             /\ elapsed' = 0
        ELSE UNCHANGED <<statVars, teleVars>>

C24_OnlyAtCheck ==
    (title' # title \/ reported' # reported) => (StatsChecked /\ elapsed >= STATS_PERIOD)

C24_SincePrevious == reported + frame_count = Len(seen)

C24_Telemetry == [][C24_StatsStep /\ C24_OnlyAtCheck]_vars /\ []C24_SincePrevious

\* One raw frame and one decoded picture were drained, then a line was
\* emitted: a tie, named raw, and the counters are zero again.
C24_Witness ==
    /\ seen = <<PRaw22, PH264>>
    /\ decLog = <<"pic">>
    /\ title = [state |-> "stats", codec |-> "raw"]
    /\ reported = 2
    /\ frame_count = 0
    /\ h264_frames = 0
    /\ raw_frames = 0
    /\ elapsed = 0
    /\ ppc = "check"

-----------------------------------------------------------------------------
\* A frame has been written into the framebuffer: a Raw frame was copied or
\* a decoded picture converted.
FrameWritten ==
    \/ \E i \in 1..Len(seen) : seen[i].frame_type = "Raw"
    \/ \E i \in 1..Len(decLog) : decLog[i] = "pic"

\* This step writes the first frame.
FirstWrite == ~FrameWritten /\ FrameWritten'

(* C25 as the spec states it, for a presenter whose connection stays open:  *)
(* the window shows the Waiting title as long as no frame has been written, *)
(* and shows Streaming from the first successful frame write on.            *)
C25_WaitingThenStreaming ==
    /\ [](~FrameWritten => title.state = "waiting")
    /\ [][FirstWrite => title'.state # "waiting"]_vars

-----------------------------------------------------------------------------
RECURSIVE CallsOf(_, _)
\* How many of the calls are op.
CallsOf(calls, op) ==
    IF calls = <<>> THEN 0
    ELSE CallsOf(Tail(calls), op) + (IF Head(calls).op = op THEN 1 ELSE 0)

RECURSIVE BytesOf(_)
\* The sum of the arguments of the record_frame calls.
BytesOf(calls) ==
    IF calls = <<>> THEN 0 ELSE BytesOf(Tail(calls)) + Head(calls).bytes

\* A snapshot is taken in this step.
Snapshotting == \E late \in BOOLEAN : snapshot(late)

(* C26 as the spec states it: a snapshot reports as total_frames the number *)
(* of record_frame calls since the last reset, as total_bytes the sum of    *)
(* their arguments and as dropped_frames the number of record_drop calls.   *)
C26_ExactSums ==
    [][Snapshotting =>
          /\ statsSnap'.total_frames = CallsOf(statsCalls, "frame")
          /\ statsSnap'.total_bytes = BytesOf(statsCalls)
          /\ statsSnap'.dropped_frames = CallsOf(statsCalls, "drop")]_vars

(* C26 (amended): the counters are 64-bit and wrap.  A snapshot reports the *)
(* number of record_frame calls since the last reset, the sum of their      *)
(* arguments and the number of record_drop calls, each modulo 2^64; right   *)
(* after a reset, and before any further call, it reports three zeros.      *)
C26_SnapshotStep ==
    Snapshotting =>
        /\ statsSnap'.total_frames = CallsOf(statsCalls, "frame") % U64_MODULUS
        /\ statsSnap'.total_bytes = BytesOf(statsCalls) % U64_MODULUS
        /\ statsSnap'.dropped_frames = CallsOf(statsCalls, "drop") % U64_MODULUS
        /\ statsSnap'.taken

C26_ResetStep ==
    (statsCalls # <<>> /\ statsCalls' = <<>>) =>
        (stats'.frames = 0 /\ stats'.bytes = 0 /\ stats'.dropped = 0)

C26_WrappingSums == [][C26_SnapshotStep /\ C26_ResetStep]_vars

\* Two frames whose byte counts add up past the counter, and one drop, were
\* recorded; the snapshot reports the wrapped sum.
C26_Witness ==
    /\ statsCalls = << [op |-> "frame", bytes |-> U64_MODULUS - 1],
                       [op |-> "frame", bytes |-> 3],
                       [op |-> "drop", bytes |-> 0] >>
    /\ statsSnap.taken
    /\ statsSnap.total_frames = 2
    /\ statsSnap.total_bytes = 2
    /\ statsSnap.dropped_frames = 1

-----------------------------------------------------------------------------
\* The four bytes of pixel number p (from 0) of the pattern.
BarsPixel(p) == SubSeq(barsOut.data, 4 * p + 1, 4 * p + 4)

(* C27 as the spec states it: for every width and height,                   *)
(* generate_color_bars returns width * height * 4 bytes, and the pixel in   *)
(* column x has the colour of bar min(x / (width / 8), 7), with alpha 255.  *)
C27_BarsForEverySize ==
    barsOut # NoBars =>
        LET w == barsArgs[1]
            h == barsArgs[2]
        IN  /\ barsOut.kind = "ok"
            /\ Len(barsOut.data) = w * h * 4
            /\ \A p \in 0..(w * h - 1) :
                  LET x   == p % w
                      bar == IF x \div (w \div 8) < 7 THEN x \div (w \div 8) ELSE 7
                  IN  BarsPixel(p) = BarColours[bar + 1] /\ BarsPixel(p)[4] = 255

-----------------------------------------------------------------------------
\* The messages that are shorter than a header.
ShortMessages == {data \in MsgPool : Len(data) < FRAME_HEADER_SIZE}

(* C28 as the spec states it: a datagram or a one-shot stream shorter than  *)
(* the 26-byte header is rejected; nothing is enqueued and the acceptor     *)
(* that received it is waiting for the next datagram or stream.             *)
C28_ShortMessageRejected ==
    [][\A data \in ShortMessages :
          /\ DgRecv(1, data) => (dgPc'[1] = "accept" /\ chan' = chan)
          /\ UniAccept(1, data) => (uniPc'[1] = "accept" /\ chan' = chan)]_vars

-----------------------------------------------------------------------------
\* What uni_task and the single-frame parser refuse, said of the bytes: more
\* than the read ceiling, less than a header, a payload_size over the
\* ceiling, an unknown frame type, fewer payload bytes than announced.
UniRefuses(data) ==
    \/ Len(data) > FRAME_HEADER_SIZE + MAX_FRAME_PAYLOAD_SIZE
    \/ Len(data) < FRAME_HEADER_SIZE
    \/ AnnouncedSize(data) > MAX_FRAME_PAYLOAD_SIZE
    \/ data[2] \notin 0..3
    \/ Len(data) - FRAME_HEADER_SIZE < AnnouncedSize(data)

\* The lengths of the channel's queue and of what the presenter has taken.
Enqueued == Len(chan) + Len(seen)

(* C29: an accepted unidirectional stream puts at most one frame on the     *)
(* channel.  A stream that cannot be read, is longer than 26 bytes plus the *)
(* payload ceiling, is shorter than a header or does not parse puts none    *)
(* and leaves uni_task waiting for the next stream; any other stream leaves *)
(* it with one frame to send, and sending it enqueues that one frame and    *)
(* returns uni_task to accepting.  While the connection is open uni_task    *)
(* never ends.                                                              *)
C29_AcceptStep ==
    \A data \in UniMsgs :
        UniAccept(1, data) =>
            /\ chan' = chan
            /\ IF UniRefuses(data)
               THEN uniPc'[1] = "accept" /\ uniFrame' = uniFrame
               ELSE uniPc'[1] = "send" /\ uniFrame'[1].rgba_data = AnnouncedPayload(data)

C29_ReadErrStep ==
    UniReadErr(1) => (chan' = chan /\ uniPc'[1] = "accept" /\ uniFrame' = uniFrame)

C29_SendStep ==
    (uniPc[1] = "send" /\ uniPc'[1] # "send") =>
        /\ uniPc'[1] = "accept"
        /\ Enqueued' <= Enqueued + 1
        /\ rxOpen => chan' = Append(chan, uniFrame[1])

C29_OneFramePerStream ==
    /\ [][C29_AcceptStep /\ C29_ReadErrStep /\ C29_SendStep]_vars
    /\ [](conn[1] = "open" => uniPc[1] \in {"accept", "send"})
    /\ [](Enqueued <= MaxUniStreams - budget)

\* Three streams were accepted: one over the ceiling, one a byte short of
\* its payload, and a Raw frame that the presenter has received; uni_task is
\* accepting again.
C29_Witness ==
    /\ budget = 0
    /\ conn[1] = "open"
    /\ uniPc[1] = "accept"
    /\ chan = <<>>
    /\ Len(seen) = 1
    /\ seen[1].frame_type = "Raw"

-----------------------------------------------------------------------------
\* The message has a whole header, a payload_size within the ceiling and a
\* known frame type.
HeaderPasses(data) ==
    /\ Len(data) >= FRAME_HEADER_SIZE
    /\ AnnouncedSize(data) <= MAX_FRAME_PAYLOAD_SIZE
    /\ data[2] \in 0..3

\* The bytes that follow the header.
Carried(data) == Len(data) - FRAME_HEADER_SIZE

(* C30: the single-frame parser refuses a message that carries fewer bytes  *)
(* after its header than payload_size announces: nothing is enqueued and    *)
(* nothing is left to send.  A message whose header passes and that carries *)
(* more bytes than announced is accepted: the frame to send has as payload  *)
(* exactly the first payload_size bytes after the header, that frame is     *)
(* what gets enqueued, and the bytes after it are dropped.                  *)
C30_ParseStep ==
    \A data \in ParseMsgs :
        /\ (DgRecv(1, data) /\ HeaderPasses(data)) =>
              /\ chan' = chan
              /\ IF Carried(data) < AnnouncedSize(data)
                 THEN dgPc'[1] = "accept" /\ dgFrame' = dgFrame
                 ELSE /\ dgPc'[1] = "send"
                      /\ Len(dgFrame'[1].rgba_data) = AnnouncedSize(data)
                      /\ dgFrame'[1].rgba_data
                           = SubSeq(data, FRAME_HEADER_SIZE + 1,
                                    FRAME_HEADER_SIZE + AnnouncedSize(data))
        /\ (UniAccept(1, data) /\ HeaderPasses(data)
              /\ Len(data) <= FRAME_HEADER_SIZE + MAX_FRAME_PAYLOAD_SIZE) =>
              /\ chan' = chan
              /\ IF Carried(data) < AnnouncedSize(data)
                 THEN uniPc'[1] = "accept" /\ uniFrame' = uniFrame
                 ELSE /\ uniPc'[1] = "send"
                      /\ Len(uniFrame'[1].rgba_data) = AnnouncedSize(data)
                      /\ uniFrame'[1].rgba_data
                           = SubSeq(data, FRAME_HEADER_SIZE + 1,
                                    FRAME_HEADER_SIZE + AnnouncedSize(data))

C30_SendStep ==
    /\ DgSendOk(1) => chan' = Append(chan, dgFrame[1])
    /\ UniSendOk(1) => chan' = Append(chan, uniFrame[1])

C30_LengthMismatch == [][C30_ParseStep /\ C30_SendStep]_vars

\* No stream was opened; a message with a byte after its empty payload came
\* in, and the presenter has received its frame, without payload.
C30_Witness ==
    /\ sentBi[1] = <<>>
    /\ biPc[1] = "accept"
    /\ seen # <<>>
    /\ seen[1].frame_type = "Control"
    /\ seen[1].rgba_data = FCtl.payload
    /\ Len(TrailingMsg) > FRAME_HEADER_SIZE + Len(seen[1].rgba_data)

-----------------------------------------------------------------------------
\* handle_frame_byte_stream is running for the connection's current
\* bidirectional stream.
BiHandling(c) == biPc[c] \in {"hdr", "payload", "send"}

(* C31: a connection has one bi_task, one uni_task and one dgram_task.  A   *)
(* bidirectional stream is accepted only when no handler is running for an  *)
(* earlier one (nothing buffered, no frame held), so one stream at most is  *)
(* being reassembled; the frames bi_task enqueues are frames of the stream  *)
(* its handler is running for; and while that handler runs, uni_task and    *)
(* dgram_task still accept messages and complete their sends.               *)
C31_AcceptStep ==
    \A fs \in SmallStreams :
        BiAccept(1, fs) =>
            /\ ~BiHandling(1)
            /\ biBuf[1] = <<>>
            /\ biFrame[1] = NoFrame
            /\ wire[1] = <<>>
            /\ emitBi'[1] = <<>>

C31_NewStreamStep ==
    (sentBi'[1] # sentBi[1] \/ Len(wire'[1]) > Len(wire[1])) => ~BiHandling(1)

C31_BiSendStep ==
    BiSendOk(1) =>
        /\ \E i \in 1..Len(sentBi[1]) : biFrame[1] = ExpectedFrame(sentBi[1][i])
        /\ chan' = Append(chan, biFrame[1])

C31_OthersNotBlocked ==
    (BiHandling(1) /\ rxOpen /\ Len(chan) < CHANNEL_CAPACITY) =>
        /\ (uniPc[1] = "send" => ENABLED UniSendOk(1))
        /\ (dgPc[1] = "send" => ENABLED DgSendOk(1))

C31_OneStreamAtATime ==
    /\ [][C31_AcceptStep /\ C31_NewStreamStep /\ C31_BiSendStep]_vars
    /\ []C31_OthersNotBlocked

\* The stream's handler has enqueued the stream's frame and is still running;
\* after that frame, a frame that only a datagram or a unidirectional stream
\* carries was enqueued.
C31_Witness ==
    /\ BiHandling(1)
    /\ sentBi[1] = <<FRaw>>
    /\ emitBi[1] = <<ExpectedFrame(FRaw)>>
    /\ seen = <<ExpectedFrame(FRaw)>>
    /\ chan = <<ExpectedFrame(FH264)>>

-----------------------------------------------------------------------------
(* C32: once the stop signal is set the loop begins no further iteration    *)
(* and main's loop ends: it leaves for the signal only at the loop          *)
(* condition, after the drain, the presentation and the stats check, each   *)
(* of which goes on as without the signal; and the drain goes on while      *)
(* there is a frame in the channel and ends when the channel is found       *)
(* empty.                                                                   *)
C32_NoNewIteration == (stop /\ ppc = "check") => ppc' # "drain"

C32_ExaminedAtCheck ==
    /\ (ppc # "exited" /\ ppc' = "exited") =>
          \/ ppc = "check" /\ stop
          \/ PresentErr
    /\ (ppc = "drain" /\ ppc' # ppc) => ppc' = "present"
    /\ (ppc = "present" /\ ppc' # ppc) => (ppc' = "stats" \/ PresentErr)
    /\ (ppc = "stats" /\ ppc' # ppc) => ppc' = "check"

C32_DrainEnds ==
    /\ (ppc = "drain" /\ ppc' # ppc) => chan = <<>>
    /\ (ppc = "drain" /\ chan # <<>> /\ PresenterStep) =>
          (\E d \in DecodeResults \cup {NotDecoded} : DrainFrame(d))
    /\ (ppc = "drain" /\ chan = <<>> /\ PresenterStep) => ppc' = "present"

C32_StopEndsLoop ==
    /\ [][C32_NoNewIteration /\ C32_ExaminedAtCheck /\ C32_DrainEnds]_vars
    /\ (stop ~> (ppc = "exited"))

\* The signal was given after the iteration began: a frame has been drained,
\* the buffer is not presented yet, frames are still arriving.
C32_Witness ==
    /\ stop
    /\ ppc = "drain"
    /\ seen # <<>>
    /\ chan # <<>>
    /\ shown = NoShow

-----------------------------------------------------------------------------
\* The least length of a plane of `rows` rows of `cols` samples, `stride`
\* apart.
PlaneLen(rows, cols, stride) == (rows - 1) * stride + cols

(* C33: for a decoded picture of w x h pixels, odd sizes included, whose    *)
(* luma plane has h rows of w samples and whose chroma planes have          *)
(* ceil(h/2) rows of ceil(w/2) samples, every (row, col) of the picture is  *)
(* visited, its luma and chroma indices lie inside their planes, its        *)
(* framebuffer index lies inside the framebuffer, and so every pixel is     *)
(* written, each to its own place.                                          *)
C33_IndicesInPlanes ==
    picGeom # NoGeom =>
        /\ DOMAIN picVisit = (0..(picGeom.h - 1)) \X (0..(picGeom.w - 1))
        /\ \A rc \in DOMAIN picVisit :
              LET i == picVisit[rc] IN
                 /\ 0 <= i.y_idx
                 /\ i.y_idx < PlaneLen(picGeom.h, picGeom.w, picGeom.y_stride)
                 /\ 0 <= i.u_idx
                 /\ i.u_idx < PlaneLen(HalfUp(picGeom.h), HalfUp(picGeom.w), picGeom.u_stride)
                 /\ 0 <= i.v_idx
                 /\ i.v_idx < PlaneLen(HalfUp(picGeom.h), HalfUp(picGeom.w), picGeom.v_stride)
                 /\ i.pixel_idx < picGeom.buffer_len
                 /\ i.written
        /\ {picVisit[rc].pixel_idx : rc \in DOMAIN picVisit} = 0..(picGeom.w * picGeom.h - 1)
        /\ picGeom.buffer_len = picGeom.w * picGeom.h

\* A picture of odd width and odd height, with padded strides, has been
\* indexed: its last pixel uses the last chroma sample.
C33_Witness ==
    /\ picGeom.w = 3
    /\ picGeom.h = 3
    /\ picGeom.u_stride = 3
    /\ picVisit[<<2, 2>>].u_idx = 4
    /\ picVisit[<<2, 2>>].written

-----------------------------------------------------------------------------
(* C34: between two stats lines h264_frames + raw_frames never exceeds      *)
(* frame_count.  Every frame taken from the channel adds one to frame_count *)
(* and its payload length to total_bytes, whatever its type and whatever    *)
(* the decoder answers; h264_frames grows by one exactly for an H264 frame  *)
(* the decoder returns a picture for, raw_frames exactly for a Raw frame.   *)
C34_DrainStep ==
    \A d \in DecodeResults \cup {NotDecoded} :
        DrainFrame(d) =>
            LET f == Head(chan) IN
               /\ frame_count' = frame_count + 1
               /\ total_bytes' = total_bytes + Len(f.rgba_data)
               /\ h264_frames' = h264_frames
                     + (IF f.frame_type = "H264" /\ d.kind = "pic" THEN 1 ELSE 0)
               /\ raw_frames' = raw_frames + (IF f.frame_type = "Raw" THEN 1 ELSE 0)

C34_OtherStep ==
    (\A d \in DecodeResults \cup {NotDecoded} : ~DrainFrame(d)) =>
        \/ UNCHANGED statVars
        \/ StatsEmit

C34_CountersOrdered == h264_frames + raw_frames <= frame_count

C34_FrameCounters == [][C34_DrainStep /\ C34_OtherStep]_vars /\ []C34_CountersOrdered

\* In one window a Control frame and an H264 frame the decoder failed on were
\* drained: both are counted as frames and bytes, neither as h264 nor raw.
C34_Witness ==
    /\ seen = <<PCtl, PH264>>
    /\ decLog = <<"err">>
    /\ frame_count = 2
    /\ total_bytes = 2
    /\ h264_frames = 0
    /\ raw_frames = 0

-----------------------------------------------------------------------------
(* C35 as the spec states it: a snapshot taken less than 100 ms after the   *)
(* last rate calculation returns the rates calculated then and leaves       *)
(* last_frames and last_bytes alone; a snapshot taken later returns the     *)
(* rates of the frames and bytes recorded since last_frames and last_bytes, *)
(* and moves these two to the current counts.  The rates being the deltas   *)
(* over the elapsed time, the deltas stand for them.                        *)
C35_EarlyStep ==
    snapshot(FALSE) =>
        /\ statsSnap'.frame_delta = statsSnap.frame_delta
        /\ statsSnap'.byte_delta = statsSnap.byte_delta
        /\ stats'.last_frames = stats.last_frames
        /\ stats'.last_bytes = stats.last_bytes

C35_LateStep ==
    snapshot(TRUE) =>
        /\ statsSnap'.frame_delta = SaturatingSub(stats.frames, stats.last_frames)
        /\ statsSnap'.byte_delta = SaturatingSub(stats.bytes, stats.last_bytes)
        /\ stats'.last_frames = stats.frames
        /\ stats'.last_bytes = stats.bytes

C35_SnapshotRates == [][C35_EarlyStep /\ C35_LateStep]_vars

-----------------------------------------------------------------------------
\* The threads that have done the first fetch_add of a record_frame and not
\* yet the second.
MidRecord == {t \in StatsThreads : thr[t].pc = "rf_bytes"}

\* Every record_frame that has returned is in the counters.
NoRecordLost ==
    (~hist.reset_called /\ ~hist.wrapped) =>
        /\ stats.frames = hist.frames_done + Cardinality(MidRecord)
        /\ stats.bytes = hist.bytes_done

\* The deltas of the snapshot thread t is taking are not negative.
DeltasNotNegative ==
    \A t \in StatsThreads : thr[t].frame_delta >= 0 /\ thr[t].byte_delta >= 0

(* C36 as the spec states it: under any interleaving the deltas are never   *)
(* negative, no completed record_frame is lost, and without a reset a       *)
(* snapshot never reports less than a snapshot that returned before it.     *)
C36_ReturnOrderStep ==
    \A t \in StatsThreads :
        (SnapReturn(t) /\ ~hist.reset_called) =>
            /\ statsSnap'.total_frames >= hist.high[1]
            /\ statsSnap'.total_bytes >= hist.high[2]
            /\ statsSnap'.dropped_frames >= hist.high[3]

C36_NeverDecrease ==
    [][C36_ReturnOrderStep]_vars /\ [](DeltasNotNegative /\ NoRecordLost)

(* C36 (amended): under any interleaving the deltas are never negative and  *)
(* no completed record_frame is lost.  While reset has not been called and  *)
(* no counter has wrapped, a snapshot reports at least what every snapshot  *)
(* that had returned before it began reported; a snapshot that overlaps     *)
(* another one may report less than the one that returned first.            *)
C36_CallOrderStep ==
    \A t \in StatsThreads :
        (SnapReturn(t) /\ ~hist.reset_called /\ ~hist.wrapped) =>
            /\ statsSnap'.total_frames >= thr[t].floor[1]
            /\ statsSnap'.total_bytes >= thr[t].floor[2]
            /\ statsSnap'.dropped_frames >= thr[t].floor[3]
            /\ statsSnap'.frame_delta >= 0
            /\ statsSnap'.byte_delta >= 0

C36_OrderedSnapshots ==
    [][C36_CallOrderStep]_vars /\ [](DeltasNotNegative /\ NoRecordLost)

\* Two snapshots overlapped, with no reset and no wrap: the one that returned
\* last had loaded the frame count first, found last_frames ahead of it, and
\* reported fewer frames than the other.
C36_Witness ==
    /\ ~hist.reset_called
    /\ ~hist.wrapped
    /\ hist.saturated
    /\ statsSnap.taken
    /\ statsSnap.total_frames < hist.high[1]
    /\ statsSnap.frame_delta = 0

-----------------------------------------------------------------------------
\* The receiver processes that are running.
Running == {i \in Children : procs[i] = "running"}

(* C37 as the spec states it: at most one receiver process runs at any      *)
(* time; Start while a child is held spawns nothing; Stop and the window's  *)
(* destruction kill the child, wait for it and clear the handle; and when   *)
(* the status shown is "Stopped", the child having been stopped or having   *)
(* exited by itself, a click on Start calls spawn_receiver_child.           *)
C37_StartStep ==
    ClickStart =>
        /\ (child # NoChild => (procs' = procs /\ child' = child))
        /\ (process_status = "Stopped" => shellHist'.spawn_called)

C37_StopStep ==
    ((ClickStop \/ Destroy) /\ child # NoChild) =>
        (procs'[child] = "reaped" /\ child' = NoChild)

C37_OneReceiver ==
    [][C37_StartStep /\ C37_StopStep]_vars /\ [](Cardinality(Running) <= 1)

(* C38 as the spec states it: once the fullscreen button has stopped the    *)
(* running receiver, spawned a new one and set the status to "Running",     *)
(* the status stays "Running" for as long as that child runs; the reader    *)
(* thread of a stopped child does not change the status while a newer       *)
(* child runs.                                                              *)
C38_RestartedIsRunning ==
    (shellHist.restarted # NoChild /\ child = shellHist.restarted
        /\ procs[shellHist.restarted] = "running")
      => process_status = "Running"

C38_OldReaderStep ==
    \A i \in Children :
        (ReaderEof(i) /\ procs[i] = "reaped" /\ (\E j \in Running : j > i)) =>
            process_status' = process_status

C38_RunningAfterRestart == [][C38_OldReaderStep]_vars /\ []C38_RestartedIsRunning

=============================================================================
